---- MODULE Spec2Model ----
(***************************************************************************)
(* A model of the bluejayson validation core: validators, the Field        *)
(* sanitize pipeline and the coercion table.                                *)
(*                                                                          *)
(* Python values are records [t |-> type name, v |-> payload].  A str is a  *)
(* sequence of code points, so that len, strip, lower, comparison and       *)
(* matching are computed and not assumed.                                   *)
(***************************************************************************)
EXTENDS Integers, Sequences, FiniteSets, TLC

VARIABLES validator, result, field, fresult, attached, classes, construction

vars == <<validator, result, field, fresult, attached, classes, construction>>

(***************************************************************************)
(* Bounds of the model                                                      *)
(***************************************************************************)
\* integers offered as values, targets and bounds: -1 .. MaxInt
MaxInt == 2
\* a Field is attached (__set_name__) at most this many times
MaxAttach == 2

(***************************************************************************)
(* Python values                                                            *)
(***************************************************************************)
None_ == [t |-> "NoneType", v |-> 0]
PyBool(b) == [t |-> "bool", v |-> b]
PyInt(n) == [t |-> "int", v |-> n]
PyStr(s) == [t |-> "str", v |-> s]
NaN == [t |-> "float", v |-> "nan"]
Date(y, m, d) == [t |-> "date", v |-> <<y, m, d>>]
\* re.Match: the matched string and its captured groups
MatchObj(s, gs) == [t |-> "re.Match", v |-> <<s, gs>>]
\* a function object, known by name
Func(name) == [t |-> "function", v |-> name]
True_ == PyBool(TRUE)
False_ == PyBool(FALSE)

\* code points of the strings used as inputs
s_empty == <<>>
s_a == <<97>>
s_ab == <<97, 98>>
s_a_b == <<97, 32, 98>>
s_1 == <<49>>
s_12 == <<49, 50>>
s_1c2 == <<49, 58, 50>>
s_2c2 == <<50, 58, 50>>
s_yes == <<121, 101, 115>>
s_YES_sp == <<32, 89, 69, 83>>
s_maybe == <<109, 97, 121, 98, 101>>
s_date_ok == <<50, 48, 50, 48, 45, 48, 50, 45, 50, 57>>
s_date_bad == <<50, 48, 50, 49, 45, 48, 50, 45, 50, 57>>

IsNum(a) == a.t \in {"int", "bool", "float"}

\* numeric value of an int or a bool (bool is a subclass of int)
Num(a) == IF a.t = "bool" THEN (IF a.v THEN 1 ELSE 0) ELSE a.v

\* bool(value)
Truthy(a) ==
    CASE a.t = "NoneType" -> FALSE
      [] a.t = "bool" -> a.v
      [] a.t = "int" -> a.v # 0
      [] a.t = "str" -> a.v # <<>>
      [] OTHER -> TRUE

\* a class object, known by its qualified name
Type(name) == [t |-> "type", v |-> name]

\* isinstance(value, cls), cls given by name; the abstract class Sized is
\* implemented by str, and bool is a subclass of int
IsInstance(a, cls) ==
    \/ a.t = cls
    \/ cls = "int" /\ a.t = "bool"
    \/ cls = "Sized" /\ a.t = "str"

\* lexicographic order on sequences of integers
RECURSIVE SeqLess(_, _)
SeqLess(x, y) ==
    IF y = <<>> THEN FALSE
    ELSE IF x = <<>> THEN TRUE
    ELSE IF Head(x) # Head(y) THEN Head(x) < Head(y)
    ELSE SeqLess(Tail(x), Tail(y))

\* a == b
PyEq(a, b) ==
    IF a.t = "float" \/ b.t = "float" THEN FALSE
    ELSE IF IsNum(a) /\ IsNum(b) THEN Num(a) = Num(b)
    ELSE a.t = b.t /\ a.v = b.v

\* whether a < b, a <= b, ... is defined (otherwise TypeError)
Orderable(a, b) ==
    \/ IsNum(a) /\ IsNum(b)
    \/ a.t = "str" /\ b.t = "str"
    \/ a.t = "date" /\ b.t = "date"

\* a < b, for orderable operands
PyLt(a, b) ==
    IF a.t = "float" \/ b.t = "float" THEN FALSE
    ELSE IF IsNum(a) THEN Num(a) < Num(b)
    ELSE SeqLess(a.v, b.v)

(***************************************************************************)
(* Outcomes of a call: a returned value or a raised exception               *)
(***************************************************************************)
NoValidator == [cls |-> "none"]

Return(x) ==
    [validator |-> NoValidator, code |-> "none", exc |-> "none", kind |-> "return",
     ret |-> x, value |-> None_]

Raise(e) ==
    [validator |-> NoValidator, code |-> "none", exc |-> e, kind |-> "raise", ret |-> None_,
     value |-> None_]

\* raise ValidationFailed(value, validator, error_code)
ValidationFailed(value, self, error_code) ==
    [validator |-> self, code |-> error_code, exc |-> "ValidationFailed", kind |-> "raise",
     ret |-> None_, value |-> value]

\* the result of an operator (op in "lt", "le", "gt", "ge") on two values
PyCompare(op, a, b) ==
    IF ~Orderable(a, b) THEN Raise("TypeError")
    ELSE CASE op = "lt" -> Return(PyBool(PyLt(a, b)))
           [] op = "gt" -> Return(PyBool(PyLt(b, a)))
           [] op = "le" -> Return(PyBool(PyLt(a, b) \/ PyEq(a, b)))
           [] op = "ge" -> Return(PyBool(PyLt(b, a) \/ PyEq(a, b)))

\* an outcome paired with the calls of user functions made on the way
Traced(out, calls) == [out |-> out, calls |-> calls]

(***************************************************************************)
(* User functions handed to validators and fields (predicates, comparators, *)
(* post-validation and coercion functions), known by name.  Each has the    *)
(* signature and the body of the lambda it stands for.                      *)
(***************************************************************************)
Param(kind, has_default) == [kind |-> kind, has_default |-> has_default]

\* inspect.signature(func).parameters
Signature(name) ==
    CASE name = "no_args" -> <<>>
      [] name = "kwonly" -> <<Param("KEYWORD_ONLY", FALSE)>>
      [] name \in {"two_args", "operator_eq", "yes_if_eq", "sum_is_3"} ->
            <<Param("POSITIONAL_OR_KEYWORD", FALSE), Param("POSITIONAL_OR_KEYWORD", FALSE)>>
      [] name = "opt_second" ->
            <<Param("POSITIONAL_OR_KEYWORD", FALSE), Param("POSITIONAL_OR_KEYWORD", TRUE)>>
      [] name = "var_args" -> <<Param("VAR_POSITIONAL", FALSE)>>
      [] name = "with_variadic" ->
            <<Param("POSITIONAL_OR_KEYWORD", FALSE), Param("VAR_POSITIONAL", FALSE),
              Param("VAR_KEYWORD", FALSE)>>
      [] OTHER -> <<Param("POSITIONAL_OR_KEYWORD", FALSE)>>

PositionalKinds == {"POSITIONAL_ONLY", "POSITIONAL_OR_KEYWORD"}

\* whether a call with n positional arguments binds to the parameters
BindOK(params, n) ==
    LET pos == SelectSeq(params, LAMBDA p : p.kind \in PositionalKinds)
        has_var == \E i \in 1..Len(params) : params[i].kind = "VAR_POSITIONAL"
    IN /\ (n <= Len(pos) \/ has_var)
       /\ \A i \in 1..Len(pos) : i > n => pos[i].has_default
       /\ \A i \in 1..Len(params) :
             params[i].kind = "KEYWORD_ONLY" => params[i].has_default

IsDigit(c) == c >= 48 /\ c <= 57
IsSpace(c) == c \in {9, 10, 32}
IsUpper(c) == c >= 65 /\ c <= 90
\* \w of the re module, on ASCII
IsWord(c) == IsDigit(c) \/ IsUpper(c) \/ (c >= 97 /\ c <= 122) \/ c = 95

\* value of a sequence of digits
RECURSIVE DigitsValue(_)
DigitsValue(s) ==
    IF s = <<>> THEN 0
    ELSE 10 * DigitsValue(SubSeq(s, 1, Len(s) - 1)) + (s[Len(s)] - 48)

\* str.strip()
RECURSIVE LStrip(_)
LStrip(s) == IF s # <<>> /\ IsSpace(Head(s)) THEN LStrip(Tail(s)) ELSE s
RECURSIVE RStrip(_)
RStrip(s) ==
    IF s # <<>> /\ IsSpace(s[Len(s)]) THEN RStrip(SubSeq(s, 1, Len(s) - 1)) ELSE s
Strip(s) == RStrip(LStrip(s))

\* str.lower()
Lower(s) == [i \in 1..Len(s) |-> IF IsUpper(s[i]) THEN s[i] + 32 ELSE s[i]]

\* int(x)
int(x) ==
    CASE x.t \in {"int", "bool"} -> Return(PyInt(Num(x)))
      [] x.t = "str" ->
            LET d == Strip(x.v)
            IN IF d # <<>> /\ \A i \in 1..Len(d) : IsDigit(d[i])
               THEN Return(PyInt(DigitsValue(d)))
               ELSE Raise("ValueError")
      [] x.t = "float" -> Raise("ValueError")
      [] OTHER -> Raise("TypeError")

\* int(a) + int(b) == 3, given the outcomes x and y of the two conversions
sum_is_3(x, y) ==
    IF x.kind = "raise" THEN x
    ELSE IF y.kind = "raise" THEN y
    ELSE Return(PyBool(x.ret.v + y.ret.v = 3))

\* the body of each function, applied to already bound arguments
Body(name, args) ==
    CASE name \in {"no_args", "two_args", "kwonly", "opt_second", "var_args", "with_variadic"} ->
            Return(True_)
      [] name = "ident" -> Return(args[1])
      [] name = "ge0" -> PyCompare("ge", args[1], PyInt(0))
      [] name = "eq_ab" -> Return(PyBool(PyEq(args[1], PyStr(s_ab))))
      [] name = "const_yes" -> Return(PyStr(s_yes))
      [] name = "operator_eq" -> Return(PyBool(PyEq(args[1], args[2])))
      [] name = "yes_if_eq" ->
            Return(IF PyEq(args[1], args[2]) THEN PyStr(s_yes) ELSE PyStr(s_empty))
      [] name = "sum_is_3" -> sum_is_3(int(args[1]), int(args[2]))

\* f(*args) for any value f
Call(f, args) ==
    IF f.t # "function" THEN Raise("TypeError")
    ELSE IF ~BindOK(Signature(f.v), Len(args)) THEN Raise("TypeError")
    ELSE Body(f.v, args)

\* a call as it appears in a trace
CallRec(f, args) == [args |-> args, fn |-> f]

(***************************************************************************)
(* Regular expressions: a compiled pattern is a sequence of alternatives,   *)
(* each a sequence of items (a character class, a repetition, and whether   *)
(* the item is a capturing group).                                          *)
(***************************************************************************)
Item(cls, rep, group) == [cls |-> cls, rep |-> rep, group |-> group]

\* pattern sources: \w+|\d   (\d+):(\d+)   (\w+)   \w(\w*)\w   (
p_word_or_digit == <<92, 119, 43, 124, 92, 100>>
p_two_numbers == <<40, 92, 100, 43, 41, 58, 40, 92, 100, 43, 41>>
p_one_word == <<40, 92, 119, 43, 41>>
p_inner_word == <<92, 119, 40, 92, 119, 42, 41, 92, 119>>
p_unbalanced == <<40>>

Pattern(alts) == [t |-> "re.Pattern", v |-> alts]

\* re.compile(source), on the sources above
re_compile(source) ==
    CASE source = p_word_or_digit ->
            Return(Pattern(<< <<Item("w", "plus", FALSE)>>, <<Item("d", "one", FALSE)>> >>))
      [] source = p_two_numbers ->
            Return(Pattern(<< <<Item("d", "plus", TRUE), Item("colon", "one", FALSE),
                               Item("d", "plus", TRUE)>> >>))
      [] source = p_one_word -> Return(Pattern(<< <<Item("w", "plus", TRUE)>> >>))
      [] source = p_inner_word ->
            Return(Pattern(<< <<Item("w", "one", FALSE), Item("w", "star", TRUE),
                               Item("w", "one", FALSE)>> >>))
      [] OTHER -> Raise("re.error")

InClass(c, cls) ==
    CASE cls = "w" -> IsWord(c)
      [] cls = "d" -> IsDigit(c)
      [] cls = "colon" -> c = 58

\* length of the longest prefix of s made of characters of the class
RECURSIVE Run(_, _)
Run(s, cls) ==
    IF s # <<>> /\ InClass(Head(s), cls) THEN 1 + Run(Tail(s), cls) ELSE 0

SetMax(S) == CHOOSE x \in S : \A y \in S : y <= x

\* match of the whole of s against a sequence of items, greedy with backtracking
RECURSIVE MatchItems(_, _)
MatchItems(items, s) ==
    IF items = <<>> THEN [groups |-> <<>>, ok |-> s = <<>>]
    ELSE LET it == Head(items)
             lo == IF it.rep = "star" THEN 0 ELSE 1
             run == Run(s, it.cls)
             hi == IF it.rep = "one" /\ run > 1 THEN 1 ELSE run
             rest(k) == MatchItems(Tail(items), SubSeq(s, k + 1, Len(s)))
             Ks == {k \in lo..hi : rest(k).ok}
         IN IF Ks = {} THEN [groups |-> <<>>, ok |-> FALSE]
            ELSE LET k == SetMax(Ks)
                     captured == IF it.group THEN <<PyStr(SubSeq(s, 1, k))>> ELSE <<>>
                 IN [groups |-> captured \o rest(k).groups, ok |-> TRUE]

\* pattern.fullmatch(s): a re.Match, or None
RECURSIVE FullMatchAlts(_, _)
FullMatchAlts(alts, s) ==
    IF alts = <<>> THEN None_
    ELSE LET m == MatchItems(Head(alts), s)
         IN IF m.ok THEN MatchObj(s, m.groups) ELSE FullMatchAlts(Tail(alts), s)

\* pattern.match(s): a match of the longest prefix of s that matches
match(pattern, s) ==
    LET Ks == {k \in 0..Len(s) : FullMatchAlts(pattern.v, SubSeq(s, 1, k)) # None_}
    IN IF Ks = {} THEN None_ ELSE FullMatchAlts(pattern.v, SubSeq(s, 1, SetMax(Ks)))

fullmatch(pattern, s) == FullMatchAlts(pattern.v, s)

\* matchobj.groups()
groups(matchobj) == matchobj.v[2]

(***************************************************************************)
(* Validators (bluejayson/validators.py).  A constructor yields            *)
(* [obj |-> the object built when out is a return, out |-> outcome].        *)
(***************************************************************************)
\* a keyword argument the caller did not pass
Omitted == [t |-> "omitted", v |-> 0]

Built(obj) == [out |-> Return(None_), obj |-> obj]
NotBuilt(e) == [out |-> Raise(e), obj |-> NoValidator]

\* a check of the first parameter alone
Predicate_check_first_param(func) ==
    IF func.t # "function" THEN Raise("TypeError")
    ELSE IF Signature(func.v) = <<>> THEN Raise("TypeError")
    ELSE IF Head(Signature(func.v)).kind \notin
              {"POSITIONAL_ONLY", "POSITIONAL_OR_KEYWORD", "VAR_POSITIONAL"}
    THEN Raise("TypeError")
    ELSE Return(None_)

\* Predicate._check_validate_func
Predicate_check_validate_func(func) ==
    IF func.t # "function" THEN Raise("TypeError")
    ELSE LET params == Signature(func.v)
         IN IF params = <<>> THEN Raise("TypeError")
            ELSE IF Head(params).kind \notin
                      {"POSITIONAL_ONLY", "POSITIONAL_OR_KEYWORD", "VAR_POSITIONAL"}
            THEN Raise("TypeError")
            ELSE IF \E i \in 2..Len(params) :
                       /\ params[i].kind \notin {"VAR_POSITIONAL", "VAR_KEYWORD"}
                       /\ ~params[i].has_default
            THEN Raise("TypeError")
            ELSE Return(None_)

\* Predicate(pred, strict): the dataclass __init__ and __post_init__
Predicate_init(pred, strict) ==
    LET chk == Predicate_check_validate_func(pred)
    IN IF chk.kind = "raise" THEN NotBuilt(chk.exc)
       ELSE Built([cls |-> "Predicate", pred |-> pred, strict |-> strict])

\* Equal(target, ...): the dataclass __init__ takes the one field `target`
Equal_init(target, compare, strict) ==
    IF compare # Omitted \/ strict # Omitted THEN NotBuilt("TypeError")
    ELSE Built([cls |-> "Equal", target |-> target])

\* Range.__post_init__, after the dataclass __init__
Range_init(min, max, min_inclusive, max_inclusive, absorb_cmp_error) ==
    IF min_inclusive.t # "bool" THEN NotBuilt("TypeError")
    ELSE IF max_inclusive.t # "bool" THEN NotBuilt("TypeError")
    ELSE Built([cls |-> "Range", min |-> min, max |-> max,
                min_inclusive |-> min_inclusive.v, max_inclusive |-> max_inclusive.v,
                absorb_cmp_error |-> absorb_cmp_error])

\* Length.__post_init__, after the dataclass __init__
Length_init(min, max, equal, absorb_len_error) ==
    LET obj == [cls |-> "Length", min |-> min, max |-> max, equal |-> equal,
                absorb_len_error |-> absorb_len_error]
    IN IF equal = None_
       THEN IF min # None_ /\ ~IsInstance(min, "int") THEN NotBuilt("TypeError")
            ELSE IF max # None_ /\ ~IsInstance(max, "int") THEN NotBuilt("TypeError")
            ELSE Built(obj)
       ELSE IF ~IsInstance(equal, "int") THEN NotBuilt("TypeError")
       ELSE Built(obj)

\* Regexp._compile_pattern
Regexp_compile_pattern(pattern) ==
    IF pattern.t = "re.Pattern" THEN Return(pattern)
    ELSE IF pattern.t = "str" THEN re_compile(pattern.v)
    ELSE Raise("TypeError")

\* Regexp.__init__(pattern, validate_func=None, strict=True); `keyword` is the
\* name under which the caller passes the function
Regexp_init(pattern, keyword, func, strict) ==
    IF keyword # "validate_func" THEN NotBuilt("TypeError")
    ELSE LET c == Regexp_compile_pattern(pattern)
         IN IF c.kind = "raise" THEN NotBuilt(c.exc)
            ELSE Built([cls |-> "Regexp", pattern |-> c.ret, strict |-> strict,
                        post_validate |-> func])

\* list(x)
list(x) ==
    CASE x.t = "list" -> Return(x)
      [] x.t = "str" -> Return([t |-> "list", v |-> [i \in 1..Len(x.v) |-> PyStr(<<x.v[i]>>)]])
      [] OTHER -> Raise("TypeError")

\* InChoices.__init__
InChoices_init(choices, compare, strict) ==
    LET l == list(choices)
    IN IF l.kind = "raise" THEN NotBuilt(l.exc)
       ELSE Built([cls |-> "InChoices", strict |-> strict, compare |-> compare,
                   choices |-> l.ret.v])

\* checks that look at the truth of the result before its type
check_result_truth_first(self, value, r, calls) ==
    IF r.kind = "raise" THEN Traced(r, calls)
    ELSE IF ~Truthy(r.ret) THEN Traced(ValidationFailed(value, self, "not_satisfied"), calls)
    ELSE IF self.strict /\ r.ret.t # "bool" THEN Traced(Raise("TypeError"), calls)
    ELSE Traced(Return(True_), calls)

\* the checks on the outcome r of the user function (strict type check, then
\* truthiness), shared in form by Predicate.validate_sub and Regexp.validate_sub
check_result(self, value, r, calls) ==
    IF r.kind = "raise" THEN Traced(r, calls)
    ELSE IF self.strict /\ r.ret.t # "bool" THEN Traced(Raise("TypeError"), calls)
    ELSE IF ~Truthy(r.ret) THEN Traced(ValidationFailed(value, self, "not_satisfied"), calls)
    ELSE Traced(Return(True_), calls)

\* Predicate.validate_sub
Predicate_validate_sub(self, value) ==
    check_result(self, value, Call(self.pred, <<value>>), <<CallRec(self.pred, <<value>>)>>)

\* Equal.validate_sub
Equal_validate_sub(self, value) ==
    IF ~PyEq(value, self.target)
    THEN Traced(ValidationFailed(value, self, "not_matched"), <<>>)
    ELSE Traced(Return(True_), <<>>)

\* a lower comparison that always includes the bound
Range_compare_lower_inclusive(self, value) ==
    IF self.min = None_ THEN Return(True_) ELSE PyCompare("ge", value, self.min)

\* Range._compare_lower
Range_compare_lower(self, value) ==
    IF self.min = None_ THEN Return(True_)
    ELSE PyCompare(IF self.min_inclusive THEN "ge" ELSE "gt", value, self.min)

\* Range._compare_upper
Range_compare_upper(self, value) ==
    IF self.max = None_ THEN Return(True_)
    ELSE PyCompare(IF self.max_inclusive THEN "le" ELSE "lt", value, self.max)

\* `a and b` on outcomes: b is evaluated only when a returned a truthy value
And(a, b) == IF a.kind = "raise" \/ ~Truthy(a.ret) THEN a ELSE b

\* the try/except of Range.validate_sub around the outcome r of the comparisons
Range_check(self, value, r) ==
    IF r.kind = "raise"
    THEN IF r.exc = "TypeError" /\ self.absorb_cmp_error
         THEN Traced(ValidationFailed(value, self, "incomparable"), <<>>)
         ELSE Traced(r, <<>>)
    ELSE IF ~Truthy(r.ret) THEN Traced(ValidationFailed(value, self, "out_of_range"), <<>>)
    ELSE Traced(Return(True_), <<>>)

\* a validate_sub that compares with the upper bound first
Range_validate_sub_upper_first(self, value) ==
    Range_check(self, value,
                And(Range_compare_upper(self, value), Range_compare_lower(self, value)))

\* Range.validate_sub
Range_validate_sub(self, value) ==
    Range_check(self, value,
                And(Range_compare_lower(self, value), Range_compare_upper(self, value)))

\* len(x)
len(x) == IF x.t \in {"str", "list"} THEN Return(PyInt(Len(x.v))) ELSE Raise("TypeError")

\* Length._compare_lower
Length_compare_lower(self, length) ==
    IF self.min = None_ THEN Return(True_) ELSE PyCompare("le", self.min, length)

\* Length._compare_upper
Length_compare_upper(self, length) ==
    IF self.max = None_ THEN Return(True_) ELSE PyCompare("le", length, self.max)

\* the bounds check of Length.validate_sub on the outcome r of the comparisons
Length_check(self, value, r) ==
    IF r.kind = "raise" THEN Traced(r, <<>>)
    ELSE IF ~Truthy(r.ret)
    THEN Traced(ValidationFailed(value, self, "length_out_of_range"), <<>>)
    ELSE Traced(Return(True_), <<>>)

\* a Length.validate_sub that absorbs the error of len whatever the flag
Length_validate_len_absorbing(self, value, length) ==
    IF length.kind = "raise"
    THEN Traced(ValidationFailed(value, self, "uncomputable_length"), <<>>)
    ELSE Length_check(self, value, And(Length_compare_lower(self, length.ret),
                                       Length_compare_upper(self, length.ret)))

\* Length.validate_sub after len(value) gave the outcome length
Length_validate_len(self, value, length) ==
    IF length.kind = "raise"
    THEN IF self.absorb_len_error
         THEN Traced(ValidationFailed(value, self, "uncomputable_length"), <<>>)
         ELSE Traced(length, <<>>)
    ELSE Length_check(self, value, And(Length_compare_lower(self, length.ret),
                                       Length_compare_upper(self, length.ret)))

\* Length.validate_sub
Length_validate_sub(self, value) == Length_validate_len(self, value, len(value))

\* Regexp.validate_sub after self.pattern.fullmatch(value) gave matchobj
Regexp_validate_match(self, value, matchobj) ==
    IF matchobj = None_
    THEN Traced(ValidationFailed(value, self, "not_matched"), <<>>)
    ELSE IF Truthy(self.post_validate)
    THEN check_result(self, value, Call(self.post_validate, <<matchobj>>),
                      <<CallRec(self.post_validate, <<matchobj>>)>>)
    ELSE Traced(Return(True_), <<>>)

\* Regexp.validate_sub
Regexp_validate_sub(self, value) ==
    IF value.t # "str" THEN Traced(ValidationFailed(value, self, "not_string"), <<>>)
    ELSE Regexp_validate_match(self, value, fullmatch(self.pattern, value.v))

RECURSIVE InChoices_loop(_, _, _, _)

\* a round that takes any result of the comparator by its truth
InChoices_round_lenient(self, value, choices, r, calls) ==
    IF r.kind = "raise" THEN Traced(r, calls)
    ELSE IF Truthy(r.ret) THEN Traced(Return(True_), calls)
    ELSE InChoices_loop(self, value, choices, calls)

\* one round of the loop of InChoices.validate_sub, after self.compare(value,
\* choice) gave the outcome r; choices are the ones left after this one
InChoices_round(self, value, choices, r, calls) ==
    IF r.kind = "raise" THEN Traced(r, calls)
    ELSE IF self.strict /\ r.ret.t # "bool" THEN Traced(Raise("TypeError"), calls)
    ELSE IF Truthy(r.ret) THEN Traced(Return(True_), calls)
    ELSE InChoices_loop(self, value, choices, calls)

\* the loop of InChoices.validate_sub over the choices left
InChoices_loop(self, value, choices, calls) ==
    IF choices = <<>> THEN Traced(ValidationFailed(value, self, "not_found"), calls)
    ELSE InChoices_round(self, value, Tail(choices),
                         Call(self.compare, <<value, Head(choices)>>),
                         Append(calls, CallRec(self.compare, <<value, Head(choices)>>)))

\* InChoices.validate_sub
InChoices_validate_sub(self, value) == InChoices_loop(self, value, self.choices, <<>>)

\* the error_templates of BaseValidator, which a subclass would inherit
error_templates_inherited(cls) == {}

\* the keys of cls.error_templates
error_templates(cls) ==
    CASE cls = "Predicate" -> {"not_satisfied"}
      [] cls = "Equal" -> {"not_matched"}
      [] cls = "Range" -> {"incomparable", "out_of_range"}
      [] cls = "Length" -> {"uncomputable_length", "length_out_of_range"}
      [] cls = "Regexp" -> {"not_string", "not_matched", "not_satisfied"}
      [] cls = "InChoices" -> {"not_found"}
      [] OTHER -> {}

\* ValidationFailed.__str__: whether it warns of an unknown error code and
\* renders the generic message
unknown_error_code(exc) == exc.code \notin error_templates(exc.validator.cls)

\* self.validate_sub(value), by the class of self
validate_sub(self, value) ==
    CASE self.cls = "Predicate" -> Predicate_validate_sub(self, value)
      [] self.cls = "Equal" -> Equal_validate_sub(self, value)
      [] self.cls = "Range" -> Range_validate_sub(self, value)
      [] self.cls = "Length" -> Length_validate_sub(self, value)
      [] self.cls = "Regexp" -> Regexp_validate_sub(self, value)
      [] self.cls = "InChoices" -> InChoices_validate_sub(self, value)

\* what BaseValidator.validate makes of the outcome r of self.validate_sub(value)
validate_result(r) ==
    IF r.out.kind = "raise" THEN r
    ELSE IF r.out.ret # True_ THEN Traced(Raise("RuntimeError"), r.calls)
    ELSE Traced(Return(True_), r.calls)

\* BaseValidator.validate
validate(self, value) == validate_result(validate_sub(self, value))

\* a __call__ whose except clause catches every exception
call_except_any(r) ==
    IF r.out.kind = "raise" THEN Traced(Return(False_), r.calls) ELSE r

\* what BaseValidator.__call__ makes of the outcome r of self.validate(value)
call_except(r) ==
    IF r.out.kind = "raise" /\ r.out.exc = "ValidationFailed"
    THEN Traced(Return(False_), r.calls)
    ELSE r

\* BaseValidator.__call__
call(self, value) == call_except(validate(self, value))

(***************************************************************************)
(* Inputs offered to the validators                                         *)
(***************************************************************************)
List(seq) == [t |-> "list", v |-> seq]

Ints == {PyInt(n) : n \in (-1)..MaxInt}

Strings == {s_empty, s_a, s_ab, s_a_b, s_1, s_12, s_1c2, s_2c2}

Values == {None_, True_, False_, NaN} \cup Ints \cup {PyStr(s) : s \in Strings}

PredArgs ==
    {Func("ge0"), Func("ident"), Func("eq_ab"), Func("no_args"), Func("two_args"),
     Func("kwonly"), Func("opt_second"), Func("var_args"), Func("with_variadic"),
     PyStr(s_maybe)}

EqualTargets == {PyInt(1), NaN, PyStr(s_ab), True_, None_}

CompareArgs == {Func("operator_eq"), Func("yes_if_eq")}

RangeBounds == {None_, PyInt(0), PyInt(MaxInt), PyStr(s_a)}

FlagArgs == {True_, False_, PyInt(1)}

LengthArgs == {None_, PyInt(1), PyInt(MaxInt), PyStr(s_1)}

PatternArgs ==
    {PyStr(p_word_or_digit), PyStr(p_two_numbers), PyStr(p_one_word), PyStr(p_inner_word),
     PyStr(p_unbalanced), re_compile(p_word_or_digit).ret, PyInt(1)}

PostValidateArgs ==
    {None_, Func("sum_is_3"), Func("eq_ab"), Func("ident"), Func("const_yes"),
     Func("no_args"), PyStr(s_maybe)}

ChoicesArgs ==
    {List(<<>>), List(<<PyInt(0), PyInt(1)>>), List(<<PyInt(1), PyInt(MaxInt)>>),
     PyStr(s_ab), PyInt(1)}

(***************************************************************************)
(* The session on validators: `validator` is the object most recently      *)
(* constructed (none when the constructor raised), `result` the last        *)
(* operation with its arguments, its outcome and the user calls it made.    *)
(***************************************************************************)
NoResult == [value |-> None_, op |-> "none", out |-> Return(None_), calls |-> <<>>,
             args |-> <<>>]

NoField ==
    [dtype |-> None_, attr_name |-> None_, coerce |-> None_, extra_annotations |-> <<>>]

\* no schema class defined yet (other than BaseSchema), no instance constructed
NoClasses == <<>>
NoConstruction == [op |-> "none", out |-> Return(None_), calls |-> <<>>, args |-> <<>>,
                   stored |-> <<>>]

\* validator = Predicate(...)
NewPredicate ==
    /\ \E pred \in PredArgs, strict \in BOOLEAN :
          LET c == Predicate_init(pred, strict)
          IN /\ validator' = c.obj
             /\ result' = [value |-> None_, op |-> "Predicate", out |-> c.out, calls |-> <<>>,
                           args |-> [pred |-> pred, strict |-> strict]]
    /\ UNCHANGED <<field, fresult, attached, classes, construction>>

\* validator = Equal(...)
NewEqual ==
    /\ \E target \in EqualTargets, compare \in CompareArgs \cup {Omitted},
          strict \in {True_, False_, Omitted} :
          LET c == Equal_init(target, compare, strict)
          IN /\ validator' = c.obj
             /\ result' = [value |-> None_, op |-> "Equal", out |-> c.out, calls |-> <<>>,
                           args |-> [strict |-> strict, target |-> target,
                                     compare |-> compare]]
    /\ UNCHANGED <<field, fresult, attached, classes, construction>>

\* validator = Range(...)
NewRange ==
    /\ \E min \in RangeBounds, max \in RangeBounds, min_inclusive \in FlagArgs,
          max_inclusive \in FlagArgs, absorb_cmp_error \in BOOLEAN :
          LET c == Range_init(min, max, min_inclusive, max_inclusive, absorb_cmp_error)
          IN /\ validator' = c.obj
             /\ result' = [value |-> None_, op |-> "Range", out |-> c.out, calls |-> <<>>,
                           args |-> [min |-> min, max |-> max,
                                     min_inclusive |-> min_inclusive,
                                     max_inclusive |-> max_inclusive,
                                     absorb_cmp_error |-> absorb_cmp_error]]
    /\ UNCHANGED <<field, fresult, attached, classes, construction>>

\* validator = Length(...)
NewLength ==
    /\ \E min \in LengthArgs, max \in LengthArgs, equal \in LengthArgs,
          absorb_len_error \in BOOLEAN :
          LET c == Length_init(min, max, equal, absorb_len_error)
          IN /\ validator' = c.obj
             /\ result' = [value |-> None_, op |-> "Length", out |-> c.out, calls |-> <<>>,
                           args |-> [min |-> min, max |-> max, equal |-> equal,
                                     absorb_len_error |-> absorb_len_error]]
    /\ UNCHANGED <<field, fresult, attached, classes, construction>>

\* validator = Regexp(...)
NewRegexp ==
    /\ \E pattern \in PatternArgs, keyword \in {"validate_func", "post_validate"},
          func \in PostValidateArgs, strict \in BOOLEAN :
          LET c == Regexp_init(pattern, keyword, func, strict)
          IN /\ validator' = c.obj
             /\ result' = [value |-> None_, op |-> "Regexp", out |-> c.out, calls |-> <<>>,
                           args |-> [pattern |-> pattern, func |-> func, strict |-> strict,
                                     keyword |-> keyword]]
    /\ UNCHANGED <<field, fresult, attached, classes, construction>>

\* validator = InChoices(...)
NewInChoices ==
    /\ \E choices \in ChoicesArgs, compare \in CompareArgs, strict \in BOOLEAN :
          LET c == InChoices_init(choices, compare, strict)
          IN /\ validator' = c.obj
             /\ result' = [value |-> None_, op |-> "InChoices", out |-> c.out, calls |-> <<>>,
                           args |-> [strict |-> strict, compare |-> compare,
                                     choices |-> choices]]
    /\ UNCHANGED <<field, fresult, attached, classes, construction>>

\* the record of an operation op on value that ended as r
Done(op, value, r) ==
    [value |-> value, op |-> op, out |-> r.out, calls |-> r.calls, args |-> <<>>]

\* validator.validate(value)
Validate ==
    /\ validator # NoValidator
    /\ \E value \in Values :
          result' = Done("validate", value, validate(validator, value))
    /\ UNCHANGED <<validator, field, fresult, attached, classes, construction>>

\* validator(value)
CallValidator ==
    /\ validator # NoValidator
    /\ \E value \in Values :
          result' = Done("call", value, call(validator, value))
    /\ UNCHANGED <<validator, field, fresult, attached, classes, construction>>

Init ==
    /\ validator = NoValidator
    /\ result = NoResult
    /\ field = NoField
    /\ fresult = NoResult
    /\ attached = 0
    /\ classes = NoClasses
    /\ construction = NoConstruction

Next ==
    \/ NewPredicate
    \/ NewEqual
    \/ NewRange
    \/ NewLength
    \/ NewRegexp
    \/ NewInChoices
    \/ Validate
    \/ CallValidator

Spec == Init /\ [][Next]_vars

(***************************************************************************)
(* Coercion functions (bluejayson/coercions.py) and the constructors used   *)
(* as coercion functions                                                    *)
(***************************************************************************)
s_auto == <<97, 117, 116, 111>>
s_None == <<78, 111, 110, 101>>
s_True == <<84, 114, 117, 101>>
s_False == <<70, 97, 108, 115, 101>>
s_nan == <<110, 97, 110>>
\* flags given to a boolean field: '0', 'NO', 'off'
s_0 == <<48>>
s_NO == <<78, 79>>
s_off == <<111, 102, 102>>

\* the strings coerce_boolean_flag takes for True: 1 y yes true on
TrueFlags == {<<49>>, <<121>>, <<121, 101, 115>>, <<116, 114, 117, 101>>, <<111, 110>>}
\* and for False: 0 n no false off
FalseFlags ==
    {<<48>>, <<110>>, <<110, 111>>, <<102, 97, 108, 115, 101>>, <<111, 102, 102>>}

\* a conversion that also takes the integers 0 and 1 for flags
coerce_boolean_flag_or_int(value) ==
    IF value.t \in {"bool", "int"} /\ Num(value) \in {0, 1} THEN Return(PyBool(Num(value) = 1))
    ELSE IF value.t = "str"
    THEN LET flag == Lower(Strip(value.v))
         IN IF flag \in TrueFlags THEN Return(True_)
            ELSE IF flag \in FalseFlags THEN Return(False_)
            ELSE Raise("ValueError")
    ELSE Raise("TypeError")

\* coerce_boolean_flag
coerce_boolean_flag(value) ==
    IF value.t = "bool" THEN Return(value)
    ELSE IF value.t = "str"
    THEN LET flag == Lower(Strip(value.v))
         IN IF flag \in TrueFlags THEN Return(True_)
            ELSE IF flag \in FalseFlags THEN Return(False_)
            ELSE Raise("ValueError")
    ELSE Raise("TypeError")

IsLeap(y) == (y % 4 = 0 /\ y % 100 # 0) \/ y % 400 = 0

DaysInMonth(y, m) ==
    IF m = 2 THEN (IF IsLeap(y) THEN 29 ELSE 28)
    ELSE IF m \in {4, 6, 9, 11} THEN 30 ELSE 31

\* datetime.date.fromisoformat, on the format YYYY-MM-DD
date_fromisoformat(value) ==
    IF value.t # "str" THEN Raise("TypeError")
    ELSE LET s == value.v
         IN IF Len(s) # 10 \/ s[5] # 45 \/ s[8] # 45
               \/ \E i \in {1, 2, 3, 4, 6, 7, 9, 10} : ~IsDigit(s[i])
            THEN Raise("ValueError")
            ELSE LET y == DigitsValue(SubSeq(s, 1, 4))
                     m == DigitsValue(SubSeq(s, 6, 7))
                     d == DigitsValue(SubSeq(s, 9, 10))
                 IN IF y < 1 \/ m < 1 \/ m > 12 \/ d < 1 \/ d > DaysInMonth(y, m)
                    THEN Raise("ValueError")
                    ELSE Return(Date(y, m, d))

\* decimal digits of a natural number
RECURSIVE Digits(_)
Digits(n) == IF n < 10 THEN <<48 + n>> ELSE Append(Digits(n \div 10), 48 + (n % 10))

\* digits of n, padded with zeros on the left to the width
RECURSIVE Pad(_, _)
Pad(s, width) == IF Len(s) >= width THEN s ELSE Pad(<<48>> \o s, width)

\* str(x)
str(x) ==
    CASE x.t = "str" -> Return(x)
      [] x.t = "int" ->
            Return(PyStr(IF x.v < 0 THEN <<45>> \o Digits(0 - x.v) ELSE Digits(x.v)))
      [] x.t = "bool" -> Return(PyStr(IF x.v THEN s_True ELSE s_False))
      [] x.t = "NoneType" -> Return(PyStr(s_None))
      [] x.t = "float" -> Return(PyStr(s_nan))
      [] x.t = "date" ->
            Return(PyStr(Pad(Digits(x.v[1]), 4) \o <<45>> \o Pad(Digits(x.v[2]), 2)
                         \o <<45>> \o Pad(Digits(x.v[3]), 2)))

\* explicit coercion functions a caller may pass: lambda s: s.strip() and
\* lambda x: x + 1
strip(x) == IF x.t = "str" THEN Return(PyStr(Strip(x.v))) ELSE Raise("AttributeError")
succ(x) == IF x.t \in {"int", "bool"} THEN Return(PyInt(Num(x) + 1)) ELSE Raise("TypeError")

\* coerce_func(value), for a function of the table, an explicit function or a
\* class used as a constructor
Coerce(coerce_func, value) ==
    CASE coerce_func = Func("coerce_boolean_flag") -> coerce_boolean_flag(value)
      [] coerce_func = Func("date.fromisoformat") -> date_fromisoformat(value)
      [] coerce_func = Func("strip") -> strip(value)
      [] coerce_func = Func("succ") -> succ(value)
      [] coerce_func = Type("int") -> int(value)
      [] coerce_func = Type("str") -> str(value)
      [] coerce_func.t = "function" -> Call(coerce_func, <<value>>)
      [] OTHER -> Raise("TypeError")

\* DEFAULT_COERCE_FUNCS, as the types that have an entry and the entry of each
CoerceTypes == {"date", "bool"}
DEFAULT_COERCE_FUNCS(name) ==
    IF name = "date" THEN Func("date.fromisoformat") ELSE Func("coerce_boolean_flag")

\* inspect.isabstract
isabstract(dtype) == dtype = Type("Sized")

(***************************************************************************)
(* Field (bluejayson/fields.py)                                            *)
(***************************************************************************)
\* a resolution that prefers the entry of the table to an explicit function
resolve_coerce_func_table_first(dtype, specifier) ==
    IF specifier # False_ /\ dtype.t = "type" /\ dtype.v \in CoerceTypes
    THEN Return(DEFAULT_COERCE_FUNCS(dtype.v))
    ELSE IF specifier = False_ THEN Return(None_)
    ELSE IF specifier \in {True_, PyStr(s_auto)} THEN Return(dtype)
    ELSE Return(specifier)

\* FieldFactory.resolve_coerce_func, with the default table
resolve_coerce_func(dtype, specifier) ==
    LET spec == IF specifier = PyStr(s_auto) THEN PyBool(~isabstract(dtype)) ELSE specifier
    IN IF spec = True_
       THEN IF dtype.t # "type" THEN Raise("TypeError")
            ELSE IF dtype.v \in CoerceTypes THEN Return(DEFAULT_COERCE_FUNCS(dtype.v))
            ELSE Return(dtype)
       ELSE IF spec = False_ THEN Return(None_)
       ELSE Return(spec)

\* Field.__init__
Field_init(dtype, extra_annotations, coerce) ==
    [dtype |-> dtype, attr_name |-> None_, coerce |-> coerce,
     extra_annotations |-> extra_annotations]

\* get_type_hints(owner, include_extras=True).get(name): an owner is a function
\* from annotated attribute names to [dtype, extras], extras being the
\* arguments of Annotated after the first (none for a plain annotation)
HasHint(owner, name) == name \in DOMAIN owner

\* Field.__set_name__
Field_set_name(self, owner, name) ==
    LET dtype == IF self.dtype = None_ /\ HasHint(owner, name)
                 THEN owner[name].dtype ELSE self.dtype
        extras == IF HasHint(owner, name) /\ owner[name].extras # <<>>
                  THEN self.extra_annotations \o owner[name].extras
                  ELSE self.extra_annotations
    IN [dtype |-> dtype, attr_name |-> PyStr(name), coerce |-> self.coerce,
        extra_annotations |-> extras]

\* raise BlueJaysonError(f"... type {dtype.__qualname__} ... received {value!r}")
BlueJaysonError(dtype, received) ==
    [validator |-> NoValidator, code |-> dtype.v, exc |-> "BlueJaysonError", kind |-> "raise",
     ret |-> None_, value |-> received]

\* isinstance(value, self.dtype), which raises when dtype is not a class
isinstance(value, dtype) ==
    IF dtype.t # "type" THEN Raise("TypeError")
    ELSE Return(PyBool(IsInstance(value, dtype.v)))

\* the type check of Field._coerce_value: ok is the outcome of isinstance on
\* the candidate, received the value sanitize was given
Field_check_type(self, received, candidate, ok) ==
    IF ok.kind = "raise" THEN ok
    ELSE IF ~ok.ret.v THEN BlueJaysonError(self.dtype, received)
    ELSE Return(candidate)

\* Field._coerce_value after coerce_func(value) gave the outcome coerced
Field_check_coerced(self, value, coerced) ==
    IF coerced.kind = "raise" THEN coerced
    ELSE Field_check_type(self, value, coerced.ret, isinstance(coerced.ret, self.dtype))

\* Field._coerce_value after the coercion function was resolved
Field_apply_coerce(self, value, coerce_func) ==
    IF coerce_func.kind = "raise" THEN coerce_func
    ELSE IF Truthy(coerce_func.ret)
    THEN Field_check_coerced(self, value, Coerce(coerce_func.ret, value))
    ELSE Field_check_type(self, value, value, isinstance(value, self.dtype))

\* Field._coerce_value
Field_coerce_value(self, value) ==
    Field_apply_coerce(self, value, resolve_coerce_func(self.dtype, self.coerce))

ValidatorClasses == {"Predicate", "Equal", "Range", "Length", "Regexp", "InChoices"}

\* isinstance(annotation, BaseValidator)
IsValidator(annotation) == annotation.cls \in ValidatorClasses

RECURSIVE Field_validate_loop(_, _, _)

\* a round that goes on to the later validators after this one has raised,
\* and raises this one's failure at the end
Field_validate_round_no_abort(r, annotations, value, calls) ==
    IF r.out.kind = "raise"
    THEN Traced(r.out, Field_validate_loop(annotations, value, calls).calls)
    ELSE Field_validate_loop(annotations, value, calls)

\* one round of the loop of Field._validate_value, after annotation.validate(
\* value) ended as r; annotations are the ones left after this one
Field_validate_round(r, annotations, value, calls) ==
    IF r.out.kind = "raise" THEN Traced(r.out, calls)
    ELSE Field_validate_loop(annotations, value, calls)

\* the loop of Field._validate_value over the annotations left; calls are
\* the validators invoked so far, each with the value it was given
Field_validate_loop(annotations, value, calls) ==
    IF annotations = <<>> THEN Traced(Return(value), calls)
    ELSE IF ~IsValidator(Head(annotations))
    THEN Field_validate_loop(Tail(annotations), value, calls)
    ELSE Field_validate_round(validate(Head(annotations), value), Tail(annotations), value,
                              Append(calls, CallRec(Head(annotations), <<value>>)))

\* Field._validate_value
Field_validate_value(self, value) ==
    Field_validate_loop(self.extra_annotations, value, <<>>)

\* Field.sanitize after self._coerce_value(value) ended as coerced
Field_sanitize_coerced(self, coerced) ==
    IF coerced.kind = "raise" THEN Traced(coerced, <<>>)
    ELSE Field_validate_value(self, coerced.ret)

\* Field.sanitize
Field_sanitize(self, value) == Field_sanitize_coerced(self, Field_coerce_value(self, value))

(***************************************************************************)
(* The session on one Field object: it is constructed, attached to owner    *)
(* classes (__set_name__) and used to sanitize values.                      *)
(***************************************************************************)
n_x == <<120>>
n_y == <<121>>
n_z == <<122>>
n_w == <<119>>

Names == {n_x, n_y, n_z, n_w}

Hint(dtype, extras) == [dtype |-> dtype, extras |-> extras]

RangeMin0 == Range_init(PyInt(0), None_, True_, True_, TRUE).obj
RangeMax1 == Range_init(None_, PyInt(1), True_, True_, TRUE).obj
LengthMax2 == Length_init(None_, PyInt(2), None_, TRUE).obj
TruthyPredicate == Predicate_init(Func("ident"), FALSE).obj
StrictGe0 == Predicate_init(Func("ge0"), TRUE).obj
\* an annotation that is not a validator
Doc == [cls |-> "str"]

\* class A:  x: Annotated[int, Range(min=0)];  y: str
OwnerA == (n_x :> Hint(Type("int"), <<RangeMin0>>)) @@ (n_y :> Hint(Type("str"), <<>>))
\* class B:  x: Annotated[str, Doc, Length(max=2)];  z: date
OwnerB ==
    (n_x :> Hint(Type("str"), <<Doc, LengthMax2>>)) @@ (n_z :> Hint(Type("date"), <<>>))

Owners == {OwnerA, OwnerB}

DTypeArgs ==
    {None_, Type("int"), Type("str"), Type("bool"), Type("date"), Type("Sized")}

ExtraArgs == {<<>>, <<RangeMax1, Doc, StrictGe0>>, <<TruthyPredicate, LengthMax2>>}

CoerceArgs == {PyStr(s_auto), True_, False_, Func("strip"), Func("succ"), Func("const_yes")}

FieldValues ==
    {None_, True_, Date(2020, 2, 29)} \cup Ints
    \cup {PyStr(s) : s \in {s_1, s_12, s_ab, s_YES_sp, s_maybe, s_date_ok, s_date_bad,
                             s_0, s_NO, s_off}}

\* owner.name = field, in a class body
SetName ==
    /\ attached < MaxAttach
    /\ \E owner \in Owners, name \in Names :
          /\ field' = Field_set_name(field, owner, name)
          /\ fresult' = [value |-> PyStr(name), op |-> "set_name", out |-> Return(None_),
                         calls |-> <<>>, args |-> <<>>]
    /\ attached' = attached + 1
    /\ UNCHANGED <<validator, result, classes, construction>>

\* field.sanitize(value)
Sanitize ==
    /\ \E value \in FieldValues :
          fresult' = Done("sanitize", value, Field_sanitize(field, value))
    /\ UNCHANGED <<validator, result, field, attached, classes, construction>>

InitField ==
    /\ validator = NoValidator
    /\ result = NoResult
    /\ field \in {Field_init(dtype, extras, coerce) :
                     dtype \in DTypeArgs, extras \in ExtraArgs, coerce \in CoerceArgs}
    /\ fresult = NoResult
    /\ attached = 0
    /\ classes = NoClasses
    /\ construction = NoConstruction

NextField ==
    \/ SetName
    \/ Sanitize

SpecField == InitField /\ [][NextField]_vars

(***************************************************************************)
(* Schema classes (bluejayson/schema.py, schemata.py, fields.py).  `classes` *)
(* is the sequence of schema classes defined so far; class 0 is BaseSchema.  *)
(* A class is [bases, dict, mro, bjs_all_fields, schema_all_fields]: dict is *)
(* the class body in declaration order, bjs_all_fields the registry built by *)
(* SchemaMeta (an OrderedDict, here a sequence of [name, field]) and         *)
(* schema_all_fields the list of names kept by BaseSchema._add_field.        *)
(***************************************************************************)
\* at most this many schema classes are defined
MaxClasses == 4

\* BaseField(sanitizer=...) created in the body of class `owner` under `key`;
\* owner and key give the object its identity
BaseField(owner, key, sanitizer) ==
    [t |-> "BaseField", v |-> <<owner, key>>, sanitizer |-> sanitizer, field_name |-> None_]

\* Sanitizer(), and Validator(lambda x: x >= 0, ...)
BaseSanitizer == [t |-> "Sanitizer", v |-> 0]
NonNegative == [t |-> "Validator", v |-> Func("ge0")]

Entry(name, value) == [field |-> value, name |-> name]

\* OrderedDict: key in d, d[key], d[key] = value
HasKey(d, key) == \E i \in 1..Len(d) : d[i].name = key
GetItem(d, key) == d[CHOOSE i \in 1..Len(d) : d[i].name = key].field
\* an assignment that moves an existing key to the end
SetItemMovingToEnd(d, key, value) ==
    Append(SelectSeq(d, LAMBDA e : e.name # key), Entry(key, value))
SetItem(d, key, value) ==
    IF HasKey(d, key)
    THEN [i \in 1..Len(d) |-> IF d[i].name = key THEN Entry(key, value) ELSE d[i]]
    ELSE Append(d, Entry(key, value))

\* the sequence reversed
Reverse(seq) == [i \in 1..Len(seq) |-> seq[Len(seq) + 1 - i]]

\* cls.mro() and cls.bjs_all_fields of class c (0 is BaseSchema)
Mro(cs, c) == IF c = 0 THEN <<0>> ELSE cs[c].mro
BjsAllFields(cs, c) == IF c = 0 THEN <<>> ELSE cs[c].bjs_all_fields
ClassDict(cs, c) == IF c = 0 THEN <<>> ELSE cs[c].dict

\* the result of a C3 merge with class c put in front
C3Prepend(c, r) == IF r.ok THEN [ok |-> TRUE, seq |-> <<c>> \o r.seq] ELSE r

\* the merge step of the C3 linearisation that type.__new__ computes: the first
\* head that is in the tail of no list goes next; none means no consistent MRO
RECURSIVE C3Merge(_)
C3Merge(lists) ==
    LET ne == SelectSeq(lists, LAMBDA l : l # <<>>)
        heads == {i \in 1..Len(ne) :
                     \A k \in 1..Len(ne) : \A j \in 2..Len(ne[k]) : ne[k][j] # ne[i][1]}
        c == ne[CHOOSE i \in heads : \A k \in heads : i <= k][1]
    IN IF ne = <<>> THEN [ok |-> TRUE, seq |-> <<>>]
       ELSE IF heads = {} THEN [ok |-> FALSE, seq |-> <<>>]
       ELSE C3Prepend(c, C3Merge([i \in 1..Len(ne) |-> SelectSeq(ne[i], LAMBDA x : x # c)]))

\* the MRO of a new class c with the given bases (duplicate bases are refused)
NewMro(cs, c, bases) ==
    IF \E i, j \in 1..Len(bases) : i # j /\ bases[i] = bases[j]
    THEN [ok |-> FALSE, seq |-> <<>>]
    ELSE C3Prepend(c, C3Merge([i \in 1..Len(bases) |-> Mro(cs, bases[i])] \o <<bases>>))

\* isinstance(value, BaseField)
IsBaseField(value) == value.t = "BaseField"

\* all_fields[name] = field for each item, in order
RECURSIVE Update(_, _)
Update(all_fields, items) ==
    IF items = <<>> THEN all_fields
    ELSE Update(SetItem(all_fields, Head(items).name, Head(items).field), Tail(items))

\* the loop of SchemaMeta._gather_all_fields over the parent classes left
RECURSIVE GatherParents(_, _, _)
GatherParents(cs, parents, all_fields) ==
    IF parents = <<>> THEN all_fields
    ELSE GatherParents(cs, Tail(parents), Update(all_fields, BjsAllFields(cs, Head(parents))))

\* SchemaMeta._gather_all_fields, given the MRO and the __dict__ of the class
SchemaMeta_gather_all_fields(cs, mro, dict) ==
    Update(GatherParents(cs, Reverse(Tail(mro)), <<>>),
           SelectSeq(dict, LAMBDA e : IsBaseField(e.field)))

\* cls.schema_all_fields by attribute lookup along the MRO: the list of the
\* first class that has one of its own (BaseSchema has the empty list)
RECURSIVE LookupSchemaAllFields(_, _)
LookupSchemaAllFields(cs, mro) ==
    IF Head(mro) = 0 THEN <<>>
    ELSE IF cs[Head(mro)].schema_all_fields # None_ THEN cs[Head(mro)].schema_all_fields.v
    ELSE LookupSchemaAllFields(cs, Tail(mro))

\* the lists _add_field can reach while a class is being defined: those of the
\* classes defined before, and the one the new class has in its own __dict__
\* (None while it has none)
Lists(cs, own) == [classes |-> cs, own |-> own]

\* the first class along the MRO that has a list of its own (0 for BaseSchema)
RECURSIVE SchemaAllFieldsHolder(_, _)
SchemaAllFieldsHolder(cs, mro) ==
    IF Head(mro) = 0 THEN 0
    ELSE IF cs[Head(mro)].schema_all_fields # None_ THEN Head(mro)
    ELSE SchemaAllFieldsHolder(cs, Tail(mro))

\* an _add_field that appends to the list found by lookup, without the copy
BaseSchema_add_field_shared(st, mro, field_name) ==
    IF st.own # None_ \/ SchemaAllFieldsHolder(st.classes, Tail(mro)) = 0
    THEN Lists(st.classes,
               List(Append(IF st.own = None_ THEN <<>> ELSE st.own.v, field_name)))
    ELSE Lists([st.classes EXCEPT
                   ![SchemaAllFieldsHolder(st.classes, Tail(mro))].schema_all_fields =
                       List(Append(@.v, field_name))],
               None_)

\* BaseSchema._add_field(cls, field_name): a class without a list of its own
\* gets a copy of the one found by lookup, then the name is appended to the
\* list of the class
BaseSchema_add_field(st, mro, field_name) ==
    Lists(st.classes,
          List(Append(IF st.own = None_ THEN LookupSchemaAllFields(st.classes, Tail(mro))
                      ELSE st.own.v,
                      field_name)))

\* BaseSchema._add_field for each field of the class body in turn
RECURSIVE AddFields(_, _, _)
AddFields(st, mro, items) ==
    IF items = <<>> THEN st
    ELSE AddFields(BaseSchema_add_field(st, mro, Head(items).name), mro, Tail(items))

\* BaseField.__set_name__ on the field itself
BaseField_set_name(self, name) == [self EXCEPT !.field_name = name]

\* the class body with __set_name__ applied to each field in it
NamedDict(body) ==
    [i \in 1..Len(body) |->
        IF IsBaseField(body[i].field)
        THEN Entry(body[i].name, BaseField_set_name(body[i].field, body[i].name))
        ELSE body[i]]

\* the class object, given its MRO and its body after __set_name__
NewClass(cs, bases, mro, dict) ==
    [mro |-> mro, bjs_all_fields |-> SchemaMeta_gather_all_fields(cs, mro, dict),
     dict |-> dict, bases |-> bases,
     schema_all_fields |->
         AddFields(Lists(cs, None_), mro, SelectSeq(dict, LAMBDA e : IsBaseField(e.field))).own]

\* the classes defined before, as the __set_name__ calls of the new class
\* leave them
ClassesAfter(cs, mro, dict) ==
    AddFields(Lists(cs, None_), mro, SelectSeq(dict, LAMBDA e : IsBaseField(e.field))).classes

\* SchemaMeta.__new__ once the MRO is known to exist or not
SchemaMeta_new_mro(cs, bases, body, mro) ==
    IF ~mro.ok THEN [classes |-> cs, cls |-> None_, out |-> Raise("TypeError")]
    ELSE [classes |-> ClassesAfter(cs, mro.seq, NamedDict(body)),
          cls |-> NewClass(cs, bases, mro.seq, NamedDict(body)), out |-> Return(None_)]

\* SchemaMeta.__new__(mcs, name, bases, dct): the class statement
SchemaMeta_new(cs, bases, body) ==
    SchemaMeta_new_mro(cs, bases, body, NewMro(cs, Len(cs) + 1, bases))

\* a keyword argument of a constructor call, and an entry of instance.__dict__
Arg(name, value) == [name |-> name, value |-> value]

\* instance.__dict__[name] = value
StoreAttr(dict, name, value) ==
    IF \E i \in 1..Len(dict) : dict[i].name = name
    THEN [i \in 1..Len(dict) |-> IF dict[i].name = name THEN Arg(name, value) ELSE dict[i]]
    ELSE Append(dict, Arg(name, value))

\* Validator.sanitize once validate_func(value) ended as r
Validator_check(value, r) ==
    IF r.kind = "raise" THEN r
    ELSE IF ~Truthy(r.ret) THEN Raise("ValidationError")
    ELSE Return(value)

\* a lambda made by a factory function, with the limits it has captured
Closure(name, lower_limit, upper_limit) ==
    [t |-> "closure", v |-> name, lower_limit |-> lower_limit, upper_limit |-> upper_limit]

\* the chained comparison  lower_limit (lower) value (upper) upper_limit  of the
\* lambdas of `between`; the second comparison is made when the first holds
between_lambda(lower, upper, lower_limit, value, upper_limit) ==
    And(PyCompare(lower, lower_limit, value), PyCompare(upper, value, upper_limit))

\* self.validate_func(value)
validate_func(f, value) ==
    IF f.t # "closure" THEN Call(f, <<value>>)
    ELSE CASE f.v = "le_le" -> between_lambda("le", "le", f.lower_limit, value, f.upper_limit)
           [] f.v = "le_lt" -> between_lambda("le", "lt", f.lower_limit, value, f.upper_limit)
           [] f.v = "lt_le" -> between_lambda("lt", "le", f.lower_limit, value, f.upper_limit)
           [] f.v = "lt_lt" -> between_lambda("lt", "lt", f.lower_limit, value, f.upper_limit)

\* Validator.sanitize (legacy validators)
Validator_sanitize(self, value) == Validator_check(value, validate_func(self.v, value))

\* Validator(validate_func, description)
Validator(f) == [t |-> "Validator", v |-> f]

\* a `between` that takes `inclusive` for both bounds
between_by_inclusive(lower_limit, upper_limit, inclusive, lower_inclusive, upper_inclusive) ==
    Validator(Closure(IF Truthy(inclusive) THEN "le_le" ELSE "lt_lt", lower_limit, upper_limit))

\* between(lower_limit, upper_limit, inclusive, lower_inclusive, upper_inclusive)
between(lower_limit, upper_limit, inclusive, lower_inclusive, upper_inclusive) ==
    LET lower == IF lower_inclusive = None_ THEN inclusive ELSE lower_inclusive
        upper == IF upper_inclusive = None_ THEN inclusive ELSE upper_inclusive
    IN IF Truthy(lower) /\ Truthy(upper)
       THEN Validator(Closure("le_le", lower_limit, upper_limit))
       ELSE IF Truthy(lower) THEN Validator(Closure("le_lt", lower_limit, upper_limit))
       ELSE IF Truthy(upper) THEN Validator(Closure("lt_le", lower_limit, upper_limit))
       ELSE Validator(Closure("lt_lt", lower_limit, upper_limit))

\* a subclass of Sanitizer whose sanitize returns f(value)
UserSanitizer(f) == [t |-> "UserSanitizer", v |-> f]

\* SanitizerChain(chain)
SanitizerChain(chain) == [t |-> "SanitizerChain", v |-> chain]

RECURSIVE SanitizerChain_loop(_, _, _)
RECURSIVE Sanitizer_sanitize(_, _)

\* a round that hands the input of this member on to the next one
SanitizerChain_round_same_input(chain, value, r, calls) ==
    IF r.kind = "raise" THEN Traced(r, calls) ELSE SanitizerChain_loop(chain, value, calls)

\* one round of the loop of SanitizerChain.sanitize, after the member given
\* value ended as r; chain holds the members left after this one
SanitizerChain_round(chain, value, r, calls) ==
    IF r.kind = "raise" THEN Traced(r, calls) ELSE SanitizerChain_loop(chain, r.ret, calls)

\* the loop of SanitizerChain.sanitize over the members left; calls are the
\* members invoked so far, each with the value it was given
SanitizerChain_loop(chain, value, calls) ==
    IF chain = <<>> THEN Traced(Return(value), calls)
    ELSE SanitizerChain_round(Tail(chain), value, Sanitizer_sanitize(Head(chain), value),
                              Append(calls, CallRec(Head(chain), <<value>>)))

\* SanitizerChain.sanitize
SanitizerChain_sanitize(self, value) == SanitizerChain_loop(self.v, value, <<>>)

\* sanitizer.sanitize(value), by the class of the sanitizer
Sanitizer_sanitize(self, value) ==
    CASE self.t = "Sanitizer" -> Return(value)
      [] self.t = "Validator" -> Validator_sanitize(self, value)
      [] self.t = "UserSanitizer" -> Coerce(self.v, value)
      [] self.t = "SanitizerChain" -> SanitizerChain_sanitize(self, value).out
      [] OTHER -> Raise("AttributeError")

\* sanitizer.sanitize(value) with the calls a chain makes of its members
sanitize_traced(self, value) ==
    IF self.t = "SanitizerChain" THEN SanitizerChain_sanitize(self, value)
    ELSE Traced(Sanitizer_sanitize(self, value), <<>>)

\* the members an operand of concat contributes
Operand_chain(operand) == IF operand.t = "SanitizerChain" THEN operand.v ELSE <<operand>>

\* the two operands as they are after the call, and the chain returned
Concatenated(left_sanitizer, right_sanitizer, new_chain) ==
    [ret |-> SanitizerChain(new_chain), left |-> left_sanitizer, right |-> right_sanitizer]

\* a concat that extends the member list of a left operand that is a chain
concat_extending_left(left_sanitizer, right_sanitizer) ==
    Concatenated(IF left_sanitizer.t = "SanitizerChain"
                 THEN SanitizerChain(left_sanitizer.v \o Operand_chain(right_sanitizer))
                 ELSE left_sanitizer,
                 right_sanitizer,
                 Operand_chain(left_sanitizer) \o Operand_chain(right_sanitizer))

\* Sanitizer.concat(left_sanitizer, right_sanitizer), also as left @ right
concat(left_sanitizer, right_sanitizer) ==
    Concatenated(left_sanitizer, right_sanitizer,
                 Operand_chain(left_sanitizer) \o Operand_chain(right_sanitizer))

\* sanitizer(value): Sanitizer.__call__, or the call of something else
Sanitizer_call(sanitizer, value) ==
    IF sanitizer.t \in {"Sanitizer", "Validator", "UserSanitizer", "SanitizerChain"}
    THEN Sanitizer_sanitize(sanitizer, value)
    ELSE Raise("TypeError")

\* the state of an instance under construction: the outcome so far, its
\* __dict__ and the sanitizer calls made
Instance(out, stored, calls) == [out |-> out, calls |-> calls, stored |-> stored]

\* BaseField.__set__ once self.sanitizer(value) ended as r
BaseField_store(self, stored, calls, r) ==
    IF r.kind = "raise" THEN Instance(r, stored, calls)
    ELSE Instance(Return(None_), StoreAttr(stored, self.field_name, r.ret), calls)

\* BaseField.__set__(self, instance, value)
BaseField_set(self, stored, calls, value) ==
    BaseField_store(self, stored, Append(calls, CallRec(self, <<value>>)),
                    Sanitizer_call(self.sanitizer, value))

\* type(self).name by attribute lookup along the MRO; None when no class has it
RECURSIVE TypeLookup(_, _, _)
TypeLookup(cs, mro, name) ==
    IF mro = <<>> THEN None_
    ELSE IF HasKey(ClassDict(cs, Head(mro)), name) THEN GetItem(ClassDict(cs, Head(mro)), name)
    ELSE TypeLookup(cs, Tail(mro), name)

\* setattr(self, name, value), given what the lookup on the type found: a data
\* descriptor takes the assignment, anything else leaves it to the __dict__
SetAttr(attr, stored, calls, name, value) ==
    IF IsBaseField(attr) THEN BaseField_set(attr, stored, calls, value)
    ELSE Instance(Return(None_), StoreAttr(stored, name, value), calls)

\* the error of BaseSchema.__init__ for a name that is no field
UnknownField(name) ==
    [validator |-> NoValidator, code |-> "unknown field", exc |-> "TypeError", kind |-> "raise",
     ret |-> None_, value |-> name]

RECURSIVE BaseSchema_init_loop(_, _, _, _)

\* the loop of BaseSchema.__init__ after setattr for one parameter ended as r
BaseSchema_init_next(cs, c, params, r) ==
    IF r.out.kind = "raise" THEN r ELSE BaseSchema_init_loop(cs, c, params, r)

\* the loop of BaseSchema.__init__ over the parameters left, in the state sofar
BaseSchema_init_loop(cs, c, params, sofar) ==
    IF params = <<>> THEN sofar
    ELSE IF ~HasKey(BjsAllFields(cs, c), Head(params).name)
    THEN Instance(UnknownField(Head(params).name), sofar.stored, sofar.calls)
    ELSE BaseSchema_init_next(cs, c, Tail(params),
             SetAttr(TypeLookup(cs, Mro(cs, c), Head(params).name), sofar.stored, sofar.calls,
                     Head(params).name, Head(params).value))

\* BaseSchema.__init__(self, **params) for an instance of class c
BaseSchema_init(cs, c, params) ==
    BaseSchema_init_loop(cs, c, params, Instance(Return(None_), <<>>, <<>>))

(***************************************************************************)
(* The session on schema classes: classes are defined one after another     *)
(* (SpecSchema); instances of the classes of a hierarchy are constructed    *)
(* (SpecConstruct).  `construction` is the last operation, with its outcome,*)
(* the sanitizer calls it made and the __dict__ of the instance.            *)
(***************************************************************************)
\* a constructor call passes at most this many keyword arguments
MaxParams == 2

\* class bodies, for the class that will be number c:
\*     x = BaseField(sanitizer=Validator(lambda x: x >= 0))
\*     y = BaseField(sanitizer=Sanitizer()); x = BaseField()
\*     z = BaseField(sanitizer=Validator(lambda x: x >= 0)); w = 1
Bodies(c) ==
    {<<Entry(n_x, BaseField(c, n_x, NonNegative))>>,
     <<Entry(n_y, BaseField(c, n_y, BaseSanitizer)), Entry(n_x, BaseField(c, n_x, None_))>>,
     <<Entry(n_z, BaseField(c, n_z, NonNegative)), Entry(n_w, PyInt(1))>>}

\* base class lists: one class, or two of the classes defined so far
BasesArgs(cs) ==
    {<<b>> : b \in 0..Len(cs)} \cup {<<a, b>> : a \in 1..Len(cs), b \in 1..Len(cs)}

\* the classes after a class statement that ended as r
Defined(cs, r) == IF r.out.kind = "raise" THEN cs ELSE Append(r.classes, r.cls)

\* the record of a class statement that ended as r
ClassStatement(bases, r) ==
    [op |-> "class", out |-> r.out, calls |-> <<>>, args |-> bases, stored |-> <<>>]

\* class C(bases): body
DefineClass ==
    /\ Len(classes) < MaxClasses
    /\ \E bases \in BasesArgs(classes), body \in Bodies(Len(classes) + 1) :
          /\ classes' = Defined(classes, SchemaMeta_new(classes, bases, body))
          /\ construction' = ClassStatement(bases, SchemaMeta_new(classes, bases, body))
    /\ UNCHANGED <<validator, result, field, fresult, attached>>

InitSchema ==
    /\ validator = NoValidator
    /\ result = NoResult
    /\ field = NoField
    /\ fresult = NoResult
    /\ attached = 0
    /\ classes = NoClasses
    /\ construction = NoConstruction

NextSchema == DefineClass

SpecSchema == InitSchema /\ [][NextSchema]_vars

\* keyword arguments: values for distinct names, in the order given
ParamValues == {PyInt(-1), PyInt(1), PyStr(s_a)}
ParamNames == {n_x, n_y, n_w}
RECURSIVE ParamsOfLen(_)
ParamsOfLen(n) ==
    IF n = 0 THEN {<<>>}
    ELSE {Append(ps, Arg(name, value)) :
             ps \in ParamsOfLen(n - 1), name \in ParamNames, value \in ParamValues}
ParamsArgs ==
    {ps \in UNION {ParamsOfLen(n) : n \in 0..MaxParams} :
        \A i, j \in 1..Len(ps) : i # j => ps[i].name # ps[j].name}

\* the hierarchies of two classes, the second a subclass of the first
FirstClasses == {Defined(<<>>, SchemaMeta_new(<<>>, <<0>>, body)) : body \in Bodies(1)}
Hierarchies ==
    {Defined(cs, SchemaMeta_new(cs, <<1>>, body)) : cs \in FirstClasses, body \in Bodies(2)}

\* the record of a constructor call that ended as r
Constructed(c, params, r) ==
    [op |-> "construct", out |-> r.out, calls |-> r.calls, args |-> <<c, params>>,
     stored |-> r.stored]

\* C(**params) for one of the classes
Construct ==
    /\ \E c \in 1..Len(classes), params \in ParamsArgs :
          construction' = Constructed(c, params, BaseSchema_init(classes, c, params))
    /\ UNCHANGED <<validator, result, field, fresult, attached, classes>>

InitConstruct ==
    /\ validator = NoValidator
    /\ result = NoResult
    /\ field = NoField
    /\ fresult = NoResult
    /\ attached = 0
    /\ classes \in Hierarchies
    /\ construction = NoConstruction

NextConstruct == Construct

SpecConstruct == InitConstruct /\ [][NextConstruct]_vars

(***************************************************************************)
(* The session on legacy validators (bluejayson/validators.py of the first  *)
(* layout): `validator` is the Validator last made by a factory function,   *)
(* `result` the last operation.                                            *)
(***************************************************************************)
LimitArgs == {PyInt(0), PyInt(1), PyInt(MaxInt)}
InclusiveArgs == {True_, False_}
OverrideArgs == {None_, True_, False_}
LegacyValues == Ints \cup {NaN, PyStr(s_a)}

\* validator = between(...)
NewBetween ==
    /\ \E lower_limit \in LimitArgs, upper_limit \in LimitArgs, inclusive \in InclusiveArgs,
          lower_inclusive \in OverrideArgs, upper_inclusive \in OverrideArgs :
          /\ validator' = between(lower_limit, upper_limit, inclusive, lower_inclusive,
                                  upper_inclusive)
          /\ result' = [value |-> None_, op |-> "between", out |-> Return(None_),
                        calls |-> <<>>,
                        args |-> <<lower_limit, upper_limit, inclusive, lower_inclusive,
                                   upper_inclusive>>]
    /\ UNCHANGED <<field, fresult, attached, classes, construction>>

\* a chain holds at most this many members
MaxChain == 3

\* Sanitizer(), a subclass whose sanitize returns value + 1, and
\* Validator(lambda x: x >= 0, ...)
PlainSanitizers == {BaseSanitizer, UserSanitizer(Func("succ")), NonNegative}

\* validator = one of the plain sanitizers
NewSanitizer ==
    /\ \E sanitizer \in PlainSanitizers :
          /\ validator' = sanitizer
          /\ result' = [value |-> None_, op |-> "Sanitizer", out |-> Return(None_),
                        calls |-> <<>>, args |-> <<>>]
    /\ UNCHANGED <<field, fresult, attached, classes, construction>>

\* the record of left @ right that ended as c: the operands as they were before
\* the call and as they are after it
Concat_result(left, right, c) ==
    [value |-> None_, op |-> "concat", out |-> Return(c.ret), calls |-> <<>>,
     args |-> <<left, right, c.left, c.right>>]

\* validator = validator @ other, other @ validator or validator @ validator
Concat ==
    /\ validator # NoValidator
    /\ \E left \in PlainSanitizers \cup {validator}, right \in PlainSanitizers \cup {validator} :
          /\ validator \in {left, right}
          /\ Len(Operand_chain(left)) + Len(Operand_chain(right)) <= MaxChain
          /\ validator' = concat(left, right).ret
          /\ result' = Concat_result(left, right, concat(left, right))
    /\ UNCHANGED <<field, fresult, attached, classes, construction>>

\* validator.sanitize(value)
LegacySanitize ==
    /\ validator # NoValidator
    /\ \E value \in LegacyValues :
          result' = Done("sanitize", value, sanitize_traced(validator, value))
    /\ UNCHANGED <<validator, field, fresult, attached, classes, construction>>

NextLegacy ==
    \/ NewBetween
    \/ NewSanitizer
    \/ Concat
    \/ LegacySanitize

SpecLegacy == Init /\ [][NextLegacy]_vars

(***************************************************************************)
(* Properties of the validators (specification Spec)                        *)
(***************************************************************************)

\* C1: validator(value) returns True exactly when validator.validate(value)
\* returns, returns False exactly when validate raises ValidationFailed, and
\* raises the same exception when validate raises anything else.
CallAgreesWithValidate ==
    result.op = "call" =>
        LET r == validate(validator, result.value).out
        IN /\ (result.out = Return(True_)) <=> (r.kind = "return")
           /\ (result.out = Return(False_)) <=> (r.kind = "raise" /\ r.exc = "ValidationFailed")
           /\ (r.kind = "raise" /\ r.exc # "ValidationFailed") => result.out = r

\* a call in strict mode raised the TypeError that validate raises
CallPropagatedTypeError ==
    /\ result.op = "call"
    /\ validator.cls = "Regexp"
    /\ result.out = Raise("TypeError")
    /\ validate(validator, result.value).out = Raise("TypeError")

\* a Length validator built with `equal` alone
IsLengthEqual(self) ==
    self.cls = "Length" /\ self.equal.t = "int" /\ self.min = None_ /\ self.max = None_

\* C2: Length(equal=n).validate(v) succeeds iff len(v) = n, and raises
\* ValidationFailed(length_out_of_range) for every v of another length.
LengthEqualIsExact ==
    (result.op = "validate" /\ IsLengthEqual(validator) /\ len(result.value).kind = "return") =>
        IF len(result.value).ret.v = validator.equal.v
        THEN result.out = Return(True_)
        ELSE result.out = ValidationFailed(result.value, validator, "length_out_of_range")

\* C3: constructing a Length with `equal` together with `min` or `max` raises,
\* so that no such validator exists.
LengthEqualExcludesBounds ==
    /\ (result.op = "Length" /\ result.args.equal # None_
        /\ (result.args.min # None_ \/ result.args.max # None_)) => result.out.kind = "raise"
    /\ validator.cls = "Length" =>
          (validator.equal = None_ \/ (validator.min = None_ /\ validator.max = None_))

\* C4: the post-validation function of a Regexp is invoked with the captured
\* groups of the full match, one argument per group, and its result decides:
\* non-boolean in strict mode is a TypeError, false is
\* ValidationFailed(not_satisfied).
PostValidateGetsGroups ==
    (result.op = "validate" /\ validator.cls = "Regexp" /\ result.value.t = "str"
     /\ Truthy(validator.post_validate)) =>
        LET matchobj == fullmatch(validator.pattern, result.value.v)
        IN IF matchobj = None_ THEN result.calls = <<>>
           ELSE LET r == Call(validator.post_validate, groups(matchobj))
                IN /\ result.calls = <<CallRec(validator.post_validate, groups(matchobj))>>
                   /\ result.out =
                         IF r.kind = "raise" THEN r
                         ELSE IF validator.strict /\ r.ret.t # "bool" THEN Raise("TypeError")
                         ELSE IF ~Truthy(r.ret)
                         THEN ValidationFailed(result.value, validator, "not_satisfied")
                         ELSE Return(True_)

\* C5: Equal(target, compare, strict) can be built with a comparator and a
\* strict flag and decides by compare(value, target); with the default
\* comparator the decision is plain equality.
EqualDecidesByCompare ==
    /\ (result.op = "Equal" /\ result.args.strict \in {True_, False_, Omitted}
        /\ result.args.compare \in CompareArgs \cup {Omitted}) => result.out.kind = "return"
    /\ (result.op = "validate" /\ validator.cls = "Equal") =>
          result.out = IF PyEq(result.value, validator.target) THEN Return(True_)
                       ELSE ValidationFailed(result.value, validator, "not_matched")

\* value >= bound (inclusive) or value > bound, for operands that can be ordered
Beyond(value, bound, inclusive) == PyLt(bound, value) \/ (inclusive /\ PyEq(value, bound))

\* the value lies between the bounds of the Range, an absent bound not checked
InRange(self, value) ==
    /\ self.min = None_ \/ Beyond(value, self.min, self.min_inclusive)
    /\ self.max = None_ \/ PyLt(value, self.max) \/ (self.max_inclusive /\ PyEq(value, self.max))

\* the value can be ordered with each bound that the Range has
ComparableWithBounds(self, value) ==
    /\ self.min = None_ \/ Orderable(value, self.min)
    /\ self.max = None_ \/ Orderable(value, self.max)

\* C15: for a value comparable with both bounds, Range.validate succeeds iff the
\* value is within the bounds (a bound included exactly when its flag is set, an
\* absent bound not checked) and raises ValidationFailed(out_of_range)
\* otherwise; so the value min passes an upper check it satisfies when
\* min_inclusive and fails when not, and the value max passes when max_inclusive.
RangeDecidesByFlags ==
    (result.op = "validate" /\ validator.cls = "Range"
     /\ ComparableWithBounds(validator, result.value)) =>
        /\ result.out = IF InRange(validator, result.value) THEN Return(True_)
                        ELSE ValidationFailed(result.value, validator, "out_of_range")
        /\ (validator.min # None_ /\ result.value = validator.min
            /\ ~validator.min_inclusive) =>
              result.out = ValidationFailed(result.value, validator, "out_of_range")
        /\ (validator.min # None_ /\ result.value = validator.min
            /\ validator.min_inclusive /\ validator.max_inclusive
            /\ (validator.max = None_ \/ ~PyLt(validator.max, validator.min))) =>
              result.out = Return(True_)
        /\ (validator.max # None_ /\ result.value = validator.max
            /\ validator.min_inclusive /\ validator.max_inclusive
            /\ (validator.min = None_ \/ ~PyLt(validator.max, validator.min))) =>
              result.out = Return(True_)

\* Range(0, MaxInt, min_inclusive=False).validate(0) failed with out_of_range
ExcludedMinRejected ==
    /\ result.op = "validate"
    /\ validator.cls = "Range"
    /\ validator.min = PyInt(0)
    /\ validator.max = PyInt(MaxInt)
    /\ ~validator.min_inclusive
    /\ result.value = PyInt(0)
    /\ result.out = ValidationFailed(PyInt(0), validator, "out_of_range")

\* a comparison of the Range with the value raises TypeError: the lower one, or
\* the upper one when the lower one let the value through
RangeCompareFails(self, value) ==
    \/ self.min # None_ /\ ~Orderable(value, self.min)
    \/ /\ self.min = None_ \/ Beyond(value, self.min, self.min_inclusive)
       /\ self.max # None_ /\ ~Orderable(value, self.max)

\* C16: a TypeError becomes a ValidationFailed only where a flag says so: one
\* raised by a comparison of Range becomes ValidationFailed(incomparable) when
\* absorb_cmp_error and propagates when not; one raised by len in Length becomes
\* ValidationFailed(uncomputable_length) when absorb_len_error and propagates
\* when not; one raised by the function of a Predicate propagates.
TypeErrorAbsorbedOnlyByFlag ==
    result.op = "validate" =>
        /\ (validator.cls = "Range" /\ RangeCompareFails(validator, result.value)) =>
              result.out = IF validator.absorb_cmp_error
                           THEN ValidationFailed(result.value, validator, "incomparable")
                           ELSE Raise("TypeError")
        /\ (validator.cls = "Length" /\ len(result.value).kind = "raise") =>
              result.out = IF validator.absorb_len_error
                           THEN ValidationFailed(result.value, validator, "uncomputable_length")
                           ELSE Raise("TypeError")
        /\ (validator.cls = "Predicate"
            /\ Call(validator.pred, <<result.value>>) = Raise("TypeError")) =>
              result.out = Raise("TypeError")
        /\ result.out.code = "incomparable" =>
              (validator.cls = "Range" /\ validator.absorb_cmp_error
               /\ RangeCompareFails(validator, result.value))
        /\ result.out.code = "uncomputable_length" =>
              (validator.cls = "Length" /\ validator.absorb_len_error
               /\ len(result.value).kind = "raise")

\* with absorb_len_error off, the TypeError of len(1) came out of Length.validate
LenErrorPropagated ==
    /\ result.op = "validate"
    /\ validator.cls = "Length"
    /\ ~validator.absorb_len_error
    /\ result.value = PyInt(1)
    /\ result.out = Raise("TypeError")

\* the piece of a string taken by one item: of the item's class throughout, one
\* character long, or at least one, or any number
PieceFits(item, piece) ==
    /\ \A i \in 1..Len(piece) : InClass(piece[i], item.cls)
    /\ CASE item.rep = "one" -> Len(piece) = 1
         [] item.rep = "plus" -> Len(piece) >= 1
         [] item.rep = "star" -> TRUE

\* the string is in the language of the pattern: for some alternative it can be
\* cut into consecutive pieces, one for each item
InLanguage(pattern, s) ==
    \E a \in 1..Len(pattern.v) :
        \E cut \in [0..Len(pattern.v[a]) -> 0..Len(s)] :
            /\ cut[0] = 0
            /\ cut[Len(pattern.v[a])] = Len(s)
            /\ \A i \in 1..Len(pattern.v[a]) :
                  /\ cut[i - 1] <= cut[i]
                  /\ PieceFits(pattern.v[a][i], SubSeq(s, cut[i - 1] + 1, cut[i]))

\* C17: Regexp.validate wants the whole string matched: a value that is no string
\* fails with not_string and nothing is called; a string that is not in the
\* language of the pattern fails with not_matched, also when a prefix of it is;
\* a string in the language passes when no post-validation function is set.
RegexpMatchesWholeString ==
    (result.op = "validate" /\ validator.cls = "Regexp") =>
        /\ result.value.t # "str" =>
              /\ result.out = ValidationFailed(result.value, validator, "not_string")
              /\ result.calls = <<>>
        /\ (result.value.t = "str" /\ ~InLanguage(validator.pattern, result.value.v)) =>
              result.out = ValidationFailed(result.value, validator, "not_matched")
        /\ (result.value.t = "str" /\ InLanguage(validator.pattern, result.value.v)
            /\ validator.post_validate = None_) =>
              result.out = Return(True_)

\* 'a b' was validated against \w+|\d: its prefix 'a' matches, the whole does
\* not, and the validation failed with not_matched
PrefixMatchRejected ==
    /\ result.op = "validate"
    /\ validator.cls = "Regexp"
    /\ validator.pattern = re_compile(p_word_or_digit).ret
    /\ result.value = PyStr(s_a_b)
    /\ InLanguage(validator.pattern, s_a)
    /\ result.out = ValidationFailed(result.value, validator, "not_matched")

\* the parameter can take a positional argument
TakesPositional(param) ==
    param.kind \in {"POSITIONAL_ONLY", "POSITIONAL_OR_KEYWORD", "VAR_POSITIONAL"}

\* the parameter needs no argument: it has a default or is *args / **kwargs
NeedsNoArgument(param) ==
    param.has_default \/ param.kind \in {"VAR_POSITIONAL", "VAR_KEYWORD"}

PredicateDecidesByResult ==
    (result.op = "validate" /\ validator.cls = "Predicate") =>
        LET r == Call(validator.pred, <<result.value>>)
        IN /\ result.calls = <<CallRec(validator.pred, <<result.value>>)>>
           /\ r.kind = "return" =>
                 result.out =
                    IF validator.strict /\ r.ret.t # "bool" THEN Raise("TypeError")
                    ELSE IF ~Truthy(r.ret)
                    THEN ValidationFailed(result.value, validator, "not_satisfied")
                    ELSE Return(True_)

\* Predicate(lambda x: x).validate(0): the falsy result 0 raised TypeError
StrictFalsyNonBoolean ==
    /\ result.op = "validate"
    /\ validator.cls = "Predicate"
    /\ validator.pred = Func("ident")
    /\ validator.strict
    /\ result.value = PyInt(0)
    /\ result.out = Raise("TypeError")

\* the comparison of the value with the i-th choice ends the loop: the
\* comparator raises, or returns a non-boolean in strict mode, or returns true
Decisive(self, value, i) ==
    LET r == Call(self.compare, <<value, self.choices[i]>>)
    IN r.kind = "raise" \/ (self.strict /\ r.ret.t # "bool") \/ Truthy(r.ret)

\* the position of the first decisive choice, 0 when there is none
FirstDecisive(self, value) ==
    LET D == {i \in 1..Len(self.choices) : Decisive(self, value, i)}
    IN IF D = {} THEN 0 ELSE CHOOSE i \in D : \A j \in D : i <= j

\* C20: InChoices.validate compares the value with the choices in list order
\* up to the first decisive one and no further: it succeeds when the comparator
\* is truthy there, raises TypeError when the result is no bool in strict mode,
\* and raises ValidationFailed(not_found) exactly when it went through all the
\* choices without a match (so always for no choices).
InChoicesStopsAtFirstMatch ==
    (result.op = "validate" /\ validator.cls = "InChoices") =>
        LET first == FirstDecisive(validator, result.value)
            compared == IF first = 0 THEN Len(validator.choices) ELSE first
            r == Call(validator.compare, <<result.value, validator.choices[first]>>)
        IN /\ result.calls =
                 [i \in 1..compared |->
                     CallRec(validator.compare, <<result.value, validator.choices[i]>>)]
           /\ result.out =
                 IF first = 0 THEN ValidationFailed(result.value, validator, "not_found")
                 ELSE IF r.kind = "raise" THEN r
                 ELSE IF validator.strict /\ r.ret.t # "bool" THEN Raise("TypeError")
                 ELSE Return(True_)
           /\ validator.choices = <<>> =>
                 result.out = ValidationFailed(result.value, validator, "not_found")

\* InChoices([0, 1]).validate(0) passed after one comparison
MatchedFirstChoice ==
    /\ result.op = "validate"
    /\ validator.cls = "InChoices"
    /\ validator.choices = <<PyInt(0), PyInt(1)>>
    /\ result.value = PyInt(0)
    /\ result.out = Return(True_)
    /\ Len(result.calls) = 1

\* in strict mode the comparator gave '' for the first choice: TypeError, and
\* the second choice was not compared
StrictNonBooleanComparison ==
    /\ result.op = "validate"
    /\ validator.cls = "InChoices"
    /\ validator.strict
    /\ validator.compare = Func("yes_if_eq")
    /\ validator.choices = <<PyInt(0), PyInt(1)>>
    /\ result.value = PyInt(1)
    /\ result.out = Raise("TypeError")
    /\ Len(result.calls) = 1

\* C23: a ValidationFailed that validator V raises while validating v carries
\* value v, validator V and an error code that is a key of the error templates
\* of V's class, so that rendering it never falls back to the generic message.
FailureCarriesKnownCode ==
    (result.op = "validate" /\ result.out.kind = "raise"
     /\ result.out.exc = "ValidationFailed") =>
        /\ result.out.value = result.value
        /\ result.out.validator = validator
        /\ result.out.code \in error_templates(validator.cls)
        /\ ~unknown_error_code(result.out)

\* Regexp(...).validate(1) raised ValidationFailed with the code not_string
NotStringRaised ==
    /\ result.op = "validate"
    /\ validator.cls = "Regexp"
    /\ result.value = PyInt(1)
    /\ result.out = ValidationFailed(PyInt(1), validator, "not_string")

(***************************************************************************)
(* Properties of Field (specification SpecField)                            *)
(***************************************************************************)

\* the value passes every validator among the annotations of the field
PassesAll(self, value) ==
    \A i \in 1..Len(self.extra_annotations) :
        IsValidator(self.extra_annotations[i]) =>
            validate(self.extra_annotations[i], value).out.kind = "return"

\* C6: sanitize of a value that already is an instance of the declared type
\* and passes all validators returns that value and raises nothing, for any
\* declared type, coerce setting and validators.  It is stated here for the
\* coerce settings whose function the library resolves itself ('auto', True
\* and False); the claim covers explicit functions as well.
SanitizeIdempotent ==
    (fresult.op = "sanitize" /\ field.dtype.t = "type"
     /\ field.coerce \in {PyStr(s_auto), True_, False_}
     /\ IsInstance(fresult.value, field.dtype.v) /\ PassesAll(field, fresult.value)) =>
        (fresult.out.kind = "return" /\ PyEq(fresult.out.ret, fresult.value))

\* C7: sanitize coerces and type-checks first; no validator is invoked when
\* that fails; otherwise the validators are invoked in declared order on the
\* coerced value up to the first one that raises, whose failure propagates.
SanitizeOrder ==
    fresult.op = "sanitize" =>
        LET coerced == Field_coerce_value(field, fresult.value)
            vs == SelectSeq(field.extra_annotations, IsValidator)
            fails == {i \in 1..Len(vs) : validate(vs[i], coerced.ret).out.kind = "raise"}
            n == IF fails = {} THEN Len(vs) ELSE CHOOSE i \in fails : \A j \in fails : i <= j
        IN IF coerced.kind = "raise"
           THEN fresult.calls = <<>> /\ fresult.out = coerced
           ELSE /\ Len(fresult.calls) = n
                /\ \A i \in 1..n : fresult.calls[i] = CallRec(vs[i], <<coerced.ret>>)
                /\ fresult.out = IF fails = {} THEN Return(coerced.ret)
                                 ELSE validate(vs[n], coerced.ret).out

\* the first of three validators failed on a value changed by the coercion, and
\* the two after it were not invoked
SanitizeAbortedAtFirstFailure ==
    /\ fresult.op = "sanitize"
    /\ Len(SelectSeq(field.extra_annotations, IsValidator)) = 3
    /\ Len(fresult.calls) = 1
    /\ fresult.calls[1].args # <<fresult.value>>
    /\ fresult.out.exc = "ValidationFailed"

\* the input cannot be coerced to the declared type, or coercion is off and
\* the input is not an instance of it
Uncoercible(self, value) ==
    LET coerce_func == resolve_coerce_func(self.dtype, self.coerce)
    IN /\ self.dtype.t = "type"
       /\ coerce_func.kind = "return"
       /\ IF Truthy(coerce_func.ret)
          THEN LET coerced == Coerce(coerce_func.ret, value)
               IN coerced.kind = "raise" \/ ~IsInstance(coerced.ret, self.dtype.v)
          ELSE ~IsInstance(value, self.dtype.v)

\* C8: sanitize of an input that cannot be coerced to, or does not match, the
\* declared type fails with BlueJaysonError naming the type and the input.
CoercionFailureIsStructured ==
    (fresult.op = "sanitize" /\ Uncoercible(field, fresult.value)) =>
        fresult.out = BlueJaysonError(field.dtype, fresult.value)

\* C9: once a field has a name, no later operation changes it.
NameAssignedOnce == [][field.attr_name # None_ => field'.attr_name = field.attr_name]_vars

\* C10: once a field has been attached, no later operation changes its
\* sequence of validators.
ValidatorsFixedOnceAttached ==
    [][attached > 0 => field'.extra_annotations = field.extra_annotations]_vars

\* what sanitize makes of the value that the coercion function func returns for
\* the input: the error of the function, BlueJaysonError when the result is no
\* instance of the declared type, and otherwise the result goes to the validators
CoercedBy(func) ==
    LET c == Coerce(func, fresult.value)
    IN IF c.kind = "raise" THEN fresult.out = c
       ELSE IF ~IsInstance(c.ret, field.dtype.v)
       THEN fresult.out = BlueJaysonError(field.dtype, fresult.value)
       ELSE /\ \A i \in 1..Len(fresult.calls) : fresult.calls[i].args = <<c.ret>>
            /\ fresult.out.kind = "return" => fresult.out.ret = c.ret

\* C21: for a field of declared type T, coerce=True resolves to the entry of
\* the table for T when there is one and to T itself otherwise; coerce=False
\* resolves to nothing, and sanitize returns the input unchanged only if it is
\* an instance of T; an explicit function is the one used, whatever the table
\* holds for T.
CoercionResolved ==
    (fresult.op = "sanitize" /\ field.dtype.t = "type") =>
        /\ field.coerce = True_ =>
              /\ resolve_coerce_func(field.dtype, field.coerce) =
                    Return(IF field.dtype.v \in CoerceTypes
                           THEN DEFAULT_COERCE_FUNCS(field.dtype.v) ELSE field.dtype)
              /\ CoercedBy(IF field.dtype.v \in CoerceTypes
                           THEN DEFAULT_COERCE_FUNCS(field.dtype.v) ELSE field.dtype)
        /\ field.coerce = False_ =>
              /\ resolve_coerce_func(field.dtype, field.coerce) = Return(None_)
              /\ fresult.out.kind = "return" =>
                    (fresult.out.ret = fresult.value
                     /\ IsInstance(fresult.value, field.dtype.v))
              /\ ~IsInstance(fresult.value, field.dtype.v) =>
                    fresult.out = BlueJaysonError(field.dtype, fresult.value)
        /\ field.coerce.t = "function" =>
              /\ resolve_coerce_func(field.dtype, field.coerce) = Return(field.coerce)
              /\ CoercedBy(field.coerce)

\* Field(bool, coerce=lambda s: s.strip()).sanitize(' YES'): the explicit
\* function was used, not the table's coerce_boolean_flag, and 'YES' is no bool
ExplicitFunctionOverTable ==
    /\ fresult.op = "sanitize"
    /\ field.dtype = Type("bool")
    /\ field.coerce = Func("strip")
    /\ fresult.value = PyStr(s_YES_sp)
    /\ coerce_boolean_flag(fresult.value) = Return(True_)
    /\ fresult.out = BlueJaysonError(field.dtype, fresult.value)

\* a boolean field without validators was given the value to sanitize, so that
\* the outcome is that of the table's conversion for bool
BooleanFlagCoerced ==
    /\ fresult.op = "sanitize"
    /\ field.dtype = Type("bool")
    /\ field.coerce = True_
    /\ field.extra_annotations = <<>>

\* the outcome that a conversion to bool has when `true` and `false` tell
\* whether a string is taken for a true flag and for a false flag
FlagOutcome(value, true, false) ==
    IF value.t = "bool" THEN Return(value)
    ELSE IF value.t # "str" THEN Raise("TypeError")
    ELSE IF true THEN Return(True_)
    ELSE IF false THEN Return(False_)
    ELSE Raise("ValueError")

\* C22 as stated: a boolean is mapped to itself; a string to true when it is,
\* case-insensitively, one of 1 y yes true on, to false when it is one of
\* 0 n no false off, and every other string raises ValueError; every other
\* input (the integers 0 and 1 too) raises TypeError.
BooleanFlagByCaseAlone ==
    BooleanFlagCoerced =>
        fresult.out = FlagOutcome(fresult.value, Lower(fresult.value.v) \in TrueFlags,
                                  Lower(fresult.value.v) \in FalseFlags)

\* the string is one of the flags, in any case, with white space around it
IsFlag(s, flags) ==
    \E i, j \in 1..Len(s) :
        /\ \A k \in 1..Len(s) : (k < i \/ k > j) => IsSpace(s[k])
        /\ Lower(SubSeq(s, i, j)) \in flags

\* C22 amended: as stated, except that white space around the string is
\* ignored: ' YES' is a true flag and raises no ValueError.
BooleanFlagIgnoringSpace ==
    BooleanFlagCoerced =>
        fresult.out = FlagOutcome(fresult.value, IsFlag(fresult.value.v, TrueFlags),
                                  IsFlag(fresult.value.v, FalseFlags))

\* ' YES' was converted to True
SpacedFlagAccepted ==
    /\ BooleanFlagCoerced
    /\ fresult.value = PyStr(s_YES_sp)
    /\ fresult.out = Return(True_)

(***************************************************************************)
(* Properties of the schema registry (specification SpecSchema)             *)
(***************************************************************************)

\* the names of a registry, in order
RegistryNames(all_fields) == [i \in 1..Len(all_fields) |-> all_fields[i].name]

\* the fields that the body of a class declares, in declaration order
OwnFields(cls) == SelectSeq(cls.dict, LAMBDA e : IsBaseField(e.field))

\* the registry a class inherits: the registries of its ancestors merged
Inherited(cls) == GatherParents(classes, Reverse(Tail(cls.mro)), <<>>)

\* the declared fields whose names the inherited registry does not hold
NewFields(cls, inherited) == SelectSeq(OwnFields(cls), LAMBDA e : ~HasKey(inherited, e.name))

\* the registry of cls holds the inherited names in their inherited order, then
\* the new names in declaration order, each declared name with the class's Field
Overlays(cls, inherited) ==
    /\ RegistryNames(cls.bjs_all_fields) =
          RegistryNames(inherited) \o RegistryNames(NewFields(cls, inherited))
    /\ \A i \in 1..Len(cls.bjs_all_fields) :
          cls.bjs_all_fields[i].field =
             IF HasKey(OwnFields(cls), cls.bjs_all_fields[i].name)
             THEN GetItem(OwnFields(cls), cls.bjs_all_fields[i].name)
             ELSE GetItem(inherited, cls.bjs_all_fields[i].name)

\* C11: a name that a subclass redeclares stays at the position it has in the
\* inherited registry and maps to the subclass's Field; the names the subclass
\* newly declares come after all inherited names, in declaration order.
RedeclaredKeepsPosition ==
    \A c \in 1..Len(classes) :
        /\ Overlays(classes[c], Inherited(classes[c]))
        /\ Len(classes[c].bases) = 1 =>
              Overlays(classes[c], BjsAllFields(classes, classes[c].bases[1]))

\* a subclass of one schema class redeclared an inherited name after declaring
\* a new one: the name is first in the registry with the subclass's Field
RedeclaredAfterNew ==
    \E c \in 1..Len(classes) :
        /\ Len(classes[c].bases) = 1
        /\ classes[c].bases[1] # 0
        /\ RegistryNames(OwnFields(classes[c])) = <<n_y, n_x>>
        /\ RegistryNames(BjsAllFields(classes, classes[c].bases[1])) = <<n_x>>
        /\ RegistryNames(classes[c].bjs_all_fields) = <<n_x, n_y>>
        /\ classes[c].bjs_all_fields[1].field.v = <<c, n_x>>

\* each name of the sequence occurs in it once
OccurOnce(names) == \A i, j \in 1..Len(names) : names[i] = names[j] => i = j

\* the mapping registry built by SchemaMeta holds each name once
MappingNamesUnique ==
    \A c \in 1..Len(classes) : OccurOnce(RegistryNames(classes[c].bjs_all_fields))

\* C12: after any sequence of class definitions every field name occurs exactly
\* once in the aggregated registry of each schema class: in the mapping built by
\* SchemaMeta and in the list kept by BaseSchema._add_field.
RegistryNamesUnique ==
    \A c \in 1..Len(classes) :
        /\ OccurOnce(RegistryNames(classes[c].bjs_all_fields))
        /\ OccurOnce(LookupSchemaAllFields(classes, classes[c].mro))

\* C26: a class statement leaves every class defined before it as it was: the
\* registry of each (names, order and Field objects), its list of field names
\* and its __dict__ are the same after the statement as before it.
DefinedClassesUnchanged ==
    [][\A c \in 1..Len(classes) : classes'[c] = classes[c]]_vars

\* class 2 extends class 1 and declares x again next to a field of its own,
\* and class 1 still has x alone, with the Field of its own body
SubclassRedeclaredField ==
    /\ Len(classes) >= 2
    /\ classes[2].bases = <<1>>
    /\ HasKey(classes[1].dict, n_x)
    /\ HasKey(classes[2].dict, n_x)
    /\ HasKey(classes[2].dict, n_y)
    /\ classes[1].schema_all_fields = List(<<n_x>>)
    /\ classes[1].bjs_all_fields = classes[1].dict
    /\ Len(classes[2].schema_all_fields.v) = 3

\* C27: in every class, the registry holds under each name the Field that
\* attribute lookup of the name on the class finds, the one of the first class
\* of the MRO that declares the name.
RegistryMatchesLookup ==
    \A c \in 1..Len(classes) :
        \A i \in 1..Len(classes[c].bjs_all_fields) :
            classes[c].bjs_all_fields[i].field =
                TypeLookup(classes, classes[c].mro, classes[c].bjs_all_fields[i].name)

(***************************************************************************)
(* Properties of schema construction (specification SpecConstruct)          *)
(***************************************************************************)

\* the class and the keyword arguments of the constructor call recorded
ConstructedClass == construction.args[1]
ConstructedParams == construction.args[2]

\* the positions of the arguments whose names the registry of the class lacks
UnknownArgs ==
    {i \in 1..Len(ConstructedParams) :
        ~HasKey(BjsAllFields(classes, ConstructedClass), ConstructedParams[i].name)}

\* C13: when a supplied name is not in the registry, the unknown-field error is
\* raised before the sanitizer of any other supplied field has run and before
\* any value is stored on the instance, wherever the unknown name stands.
UnknownFieldRaisedFirst ==
    (construction.op = "construct" /\ UnknownArgs # {}) =>
        /\ construction.out.kind = "raise"
        /\ construction.out.code = "unknown field"
        /\ construction.calls = <<>>
        /\ construction.stored = <<>>

\* the field that the registry of the constructed class holds under the name
RegistryField(name) == GetItem(BjsAllFields(classes, ConstructedClass), name)

\* C14: construction raises the unknown-field error iff some supplied name is
\* absent from the registry of the class; a construction that returns has put
\* every supplied value through the sanitizer of its field, in order, and has
\* stored it under the name.
UnknownFieldIffAbsent ==
    construction.op = "construct" =>
        /\ (construction.out.kind = "raise" /\ construction.out.code = "unknown field")
              <=> UnknownArgs # {}
        /\ (UnknownArgs = {} /\ construction.out.kind = "return") =>
              /\ Len(construction.calls) = Len(ConstructedParams)
              /\ \A i \in 1..Len(ConstructedParams) :
                    /\ construction.calls[i] =
                          CallRec(RegistryField(ConstructedParams[i].name),
                                  <<ConstructedParams[i].value>>)
                    /\ Arg(ConstructedParams[i].name, ConstructedParams[i].value)
                          \in {construction.stored[k] : k \in 1..Len(construction.stored)}

\* C30: a construction whose arguments all name fields declared without a
\* sanitizer returns, and stores every supplied value unchanged under its name.
UnsanitizedArgs ==
    /\ construction.op = "construct"
    /\ ConstructedParams # <<>>
    /\ UnknownArgs = {}
    /\ \A i \in 1..Len(ConstructedParams) :
          RegistryField(ConstructedParams[i].name).sanitizer = None_

UnsanitizedFieldStoresValue ==
    UnsanitizedArgs =>
        /\ construction.out.kind = "return"
        /\ \A i \in 1..Len(ConstructedParams) :
              Arg(ConstructedParams[i].name, ConstructedParams[i].value)
                  \in {construction.stored[k] : k \in 1..Len(construction.stored)}

(***************************************************************************)
(* Properties of the legacy validators (specification SpecLegacy)           *)
(***************************************************************************)

\* the flag that holds for a bound: its own when given, `inclusive` when not
EffectiveFlag(inclusive, own) == IF own = None_ THEN inclusive.v ELSE own.v

\* lower (<= or <) value (<= or <) upper, for values that can be ordered
Within(lower_limit, lower_inclusive, value, upper_inclusive, upper_limit) ==
    /\ PyLt(lower_limit, value) \/ (lower_inclusive /\ PyEq(lower_limit, value))
    /\ PyLt(value, upper_limit) \/ (upper_inclusive /\ PyEq(value, upper_limit))

\* C24: sanitize of a legacy Validator returns the input when the check holds
\* and raises ValidationError when not; for between(lower, upper, inclusive,
\* lower_inclusive, upper_inclusive) the check is  lower (<= or <) v (<= or <)
\* upper, each bound inclusive by its own flag when given and by `inclusive`
\* when omitted.
BetweenAcceptsByFlags ==
    (result.op = "sanitize" /\ Orderable(result.value, PyInt(0))) =>
        \A lower_limit \in LimitArgs, upper_limit \in LimitArgs, inclusive \in InclusiveArgs,
           lower_inclusive \in OverrideArgs, upper_inclusive \in OverrideArgs :
            validator = between(lower_limit, upper_limit, inclusive, lower_inclusive,
                                upper_inclusive) =>
                result.out =
                   IF Within(lower_limit, EffectiveFlag(inclusive, lower_inclusive),
                             result.value,
                             EffectiveFlag(inclusive, upper_inclusive), upper_limit)
                   THEN Return(result.value)
                   ELSE Raise("ValidationError")

\* between(0, 1, inclusive=False, upper_inclusive=True): sanitize(1) returned 1
UpperOverrideAccepted ==
    /\ result.op = "sanitize"
    /\ validator = between(PyInt(0), PyInt(1), False_, None_, True_)
    /\ result.value = PyInt(1)
    /\ result.out = Return(PyInt(1))

\* C25: sanitizing through a chain invokes the members in chain order, the
\* first with the value given and each later one with the value the member
\* before it returned; a member that raises is the last one invoked and its
\* exception is the outcome; otherwise every member is invoked and the outcome
\* is the value the last member returned (the value given, for no members).
ChainSanitized == result.op = "sanitize" /\ validator.t = "SanitizerChain"

MemberOutcome(i) == Sanitizer_sanitize(validator.v[i], result.calls[i].args[1])

ChainAppliesMembersInOrder ==
    ChainSanitized =>
        LET n == Len(result.calls) IN
        /\ n <= Len(validator.v)
        /\ \A i \in 1..n : result.calls[i].fn = validator.v[i]
        /\ n >= 1 => result.calls[1].args = <<result.value>>
        /\ \A i \in 1..(n - 1) : MemberOutcome(i) = Return(result.calls[i + 1].args[1])
        /\ n >= 1 => MemberOutcome(n) = result.out
        /\ result.out.kind = "return" => n = Len(validator.v)
        /\ n = 0 => result.out = Return(result.value)

\* the chain [x + 1, x >= 0] accepted -1, handing 0 to its second member
ChainFedForward ==
    /\ ChainSanitized
    /\ validator.v = <<UserSanitizer(Func("succ")), NonNegative>>
    /\ result.value = PyInt(-1)
    /\ result.out = Return(PyInt(0))

\* the chain [x >= 0, x + 1] stopped at its first member for -1
ChainStoppedAtFailure ==
    /\ ChainSanitized
    /\ validator.v = <<NonNegative, UserSanitizer(Func("succ"))>>
    /\ result.value = PyInt(-1)
    /\ result.out.kind = "raise"
    /\ Len(result.calls) = 1

\* C28: the chain concat(l, r) returns holds the members of l followed by the
\* members of r, a plain sanitizer counting as one member, and no member of
\* it is a chain; joining it with a third operand gives the same members as
\* joining l with the chain of r and the third operand; both operands are
\* after the call what they were before it.
Concatenated_ == result.op = "concat"

Members(sanitizer) == IF sanitizer.t = "SanitizerChain" THEN sanitizer.v ELSE <<sanitizer>>

ConcatFlattensAssociative ==
    Concatenated_ =>
        LET l == result.args[1]
            r == result.args[2]
        IN  /\ result.out = Return(validator)
            /\ validator.t = "SanitizerChain"
            /\ Len(validator.v) = Len(Members(l)) + Len(Members(r))
            /\ \A i \in 1..Len(Members(l)) : validator.v[i] = Members(l)[i]
            /\ \A i \in 1..Len(Members(r)) : validator.v[Len(Members(l)) + i] = Members(r)[i]
            /\ \A i \in 1..Len(validator.v) : validator.v[i].t # "SanitizerChain"
            /\ \A c \in PlainSanitizers \cup {l, r, validator} :
                  concat(concat(l, r).ret, c).ret = concat(l, concat(r, c).ret).ret
            /\ result.args[3] = l
            /\ result.args[4] = r

\* a chain of two members was joined with a third sanitizer and is still a
\* chain of two members
ChainOperandKept ==
    /\ Concatenated_
    /\ result.args[1].t = "SanitizerChain"
    /\ Len(result.args[1].v) = 2
    /\ Len(validator.v) = 3
    /\ result.args[3] = result.args[1]

\* C29: Range.validate compares with the upper bound only when the lower check
\* passed: a value below the lower bound fails with out_of_range whatever the
\* upper bound is; the validation ends as incomparable or with a TypeError
\* exactly when the lower comparison raises, or the lower check passes and the
\* upper comparison raises; a Range without bounds accepts every value.
RangeValidated == result.op = "validate" /\ validator.cls = "Range"

LowerRaises(self, value) == self.min # None_ /\ ~Orderable(value, self.min)

LowerFails(self, value) ==
    /\ self.min # None_
    /\ Orderable(value, self.min)
    /\ ~(PyLt(self.min, value) \/ (self.min_inclusive /\ PyEq(value, self.min)))

LowerPasses(self, value) == ~LowerRaises(self, value) /\ ~LowerFails(self, value)

UpperRaises(self, value) == self.max # None_ /\ ~Orderable(value, self.max)

EndedIncomparable ==
    \/ result.out = ValidationFailed(result.value, validator, "incomparable")
    \/ result.out = Raise("TypeError")

RangeComparesUpperAfterLower ==
    RangeValidated =>
        /\ LowerFails(validator, result.value) =>
              result.out = ValidationFailed(result.value, validator, "out_of_range")
        /\ EndedIncomparable <=>
              \/ LowerRaises(validator, result.value)
              \/ LowerPasses(validator, result.value) /\ UpperRaises(validator, result.value)
        /\ (validator.min = None_ /\ validator.max = None_) => result.out = Return(True_)

\* Range(min=MaxInt, max='a').validate(0) failed with out_of_range
UpperNotComparedBelowMin ==
    /\ RangeValidated
    /\ validator.min = PyInt(MaxInt)
    /\ validator.max = PyStr(s_a)
    /\ result.value = PyInt(0)
    /\ result.out = ValidationFailed(PyInt(0), validator, "out_of_range")

\* Range().validate(None) succeeded
UnboundedRangeAcceptedNone ==
    /\ RangeValidated
    /\ validator.min = None_
    /\ validator.max = None_
    /\ result.value = None_
    /\ result.out = Return(True_)

====
